---- MODULE Spec2Model ----
(***************************************************************************)
(* Calendario Musicala: recurrence expansion (js/ui.js), fingerprinting    *)
(* (js/utils.js), the Firestore data layer (js/db.js) and the orchestrator *)
(* (js/app.js) as a state machine.                                         *)
(*                                                                         *)
(* Representation.  A JavaScript string is a sequence of one-character     *)
(* strings, so trimming, case folding, splitting, parsing and hashing are  *)
(* computed character by character.  A Date is always a local midnight in  *)
(* this code base; it is the record [valid, t] with t the number of local  *)
(* days since 1970-01-01 (an Invalid Date has valid = FALSE).              *)
(***************************************************************************)
EXTENDS Integers, Sequences, FiniteSets, TLC

\* a call of expandWeekly / expandMonthly: its arguments, its result
VARIABLES xin, xout, xpc
\* a call of eventFingerprint on two rows: the rows, the two results
VARIABLES fin, fout, fpc
\* the data layer: the events collection and the calls in flight
VARIABLES store, run, faults, prev, calls
\* the application: the session and month subscription of js/app.js, the
\* UI_STATE of js/ui.js, and the day new Date() returns
VARIABLES session, unsubMonth, UI_STATE, now
\* the ranges of the onSnapshot listeners the store holds, oldest first
VARIABLES attached
\* the event modal of js/ui.js (UI_STATE.editingId and the form fields) and
\* the last call the form handed to the data layer
VARIABLES modal, lastCall
\* calls of expandRecurringForVisibleRange: the arguments, the results
VARIABLES rin, rout, rpc

expandVars == <<xin, xout, xpc>>
fingerprintVars == <<fin, fout, fpc>>
dbVars == <<store, run, faults, prev, calls>>
appVars == <<session, unsubMonth, UI_STATE, now, attached>>
modalVars == <<modal, lastCall>>
rangeVars == <<rin, rout, rpc>>
vars == <<xin, xout, xpc, fin, fout, fpc, store, run, faults, prev, calls,
          session, unsubMonth, UI_STATE, now, attached, modal, lastCall, rin, rout,
          rpc>>

(***************************************************************************)
(* Strings                                                                 *)
(***************************************************************************)
DigitChars == <<"0", "1", "2", "3", "4", "5", "6", "7", "8", "9">>

IsDigit(c) == \E i \in 1..Len(DigitChars) : DigitChars[i] = c

DigitVal(c) == (CHOOSE i \in 1..Len(DigitChars) : DigitChars[i] = c) - 1

IsSpace(c) == c \in {" ", "\t"}

RECURSIVE TrimStart(_)
TrimStart(s) ==
  IF s # <<>> /\ IsSpace(Head(s)) THEN TrimStart(Tail(s)) ELSE s

RECURSIVE TrimEnd(_)
TrimEnd(s) ==
  IF s # <<>> /\ IsSpace(s[Len(s)]) THEN TrimEnd(SubSeq(s, 1, Len(s) - 1)) ELSE s

\* String.prototype.trim
Trim(s) == TrimEnd(TrimStart(s))

\* String.prototype.split("-"): the parts between the separators
RECURSIVE SplitFrom(_, _, _)
SplitFrom(s, sep, part) ==
  IF s = <<>> THEN <<part>>
  ELSE IF Head(s) = sep THEN <<part>> \o SplitFrom(Tail(s), sep, <<>>)
  ELSE SplitFrom(Tail(s), sep, Append(part, Head(s)))

Split(s, sep) == SplitFrom(s, sep, <<>>)

\* parseInt(s, 10): leading white space skipped, then the longest digit
\* prefix; NaN when there is none (no sign occurs in a part split on "-")
RECURSIVE DigitsValue(_, _)
DigitsValue(s, acc) ==
  IF s # <<>> /\ IsDigit(Head(s))
  THEN DigitsValue(Tail(s), acc * 10 + DigitVal(Head(s)))
  ELSE acc

ParseInt(s) ==
  LET t == TrimStart(s)
  IN  IF t # <<>> /\ IsDigit(Head(t))
      THEN [nan |-> FALSE, v |-> DigitsValue(t, 0)]
      ELSE [nan |-> TRUE, v |-> 0]

\* pad2(n) = String(n).padStart(2, "0")
RECURSIVE DecimalDigits(_)
DecimalDigits(n) ==
  IF n < 10 THEN <<DigitChars[n + 1]>>
  ELSE Append(DecimalDigits(n \div 10), DigitChars[(n % 10) + 1])

RECURSIVE PadStart(_, _, _)
PadStart(s, width, c) == IF Len(s) < width THEN PadStart(<<c>> \o s, width, c) ELSE s

pad2(n) == PadStart(DecimalDigits(n), 2, "0")

LowerChars == <<"a", "b", "c", "d", "e", "f", "g", "h", "i", "j", "k", "l", "m",
                "n", "o", "p", "q", "r", "s", "t", "u", "v", "w", "x", "y", "z">>
UpperChars == <<"A", "B", "C", "D", "E", "F", "G", "H", "I", "J", "K", "L", "M",
                "N", "O", "P", "Q", "R", "S", "T", "U", "V", "W", "X", "Y", "Z">>

IndexIn(seq, c) == CHOOSE i \in 1..Len(seq) : seq[i] = c
OccursIn(seq, c) == \E i \in 1..Len(seq) : seq[i] = c

\* String.prototype.toLowerCase
LowerChar(c) == IF OccursIn(UpperChars, c) THEN LowerChars[IndexIn(UpperChars, c)] ELSE c
ToLowerCase(s) == [i \in 1..Len(s) |-> LowerChar(s[i])]

\* String.prototype.charCodeAt for the characters that occur in the model
CharCode(c) ==
  IF OccursIn(LowerChars, c) THEN 96 + IndexIn(LowerChars, c)
  ELSE IF OccursIn(UpperChars, c) THEN 64 + IndexIn(UpperChars, c)
  ELSE IF IsDigit(c) THEN 48 + DigitVal(c)
  ELSE IF c = " " THEN 32
  ELSE IF c = "\t" THEN 9
  ELSE IF c = "-" THEN 45
  ELSE IF c = "_" THEN 95
  ELSE 124  \* "|"

\* Array.prototype.join
RECURSIVE Join(_, _)
Join(parts, sep) ==
  IF parts = <<>> THEN <<>>
  ELSE IF Len(parts) = 1 THEN parts[1]
  ELSE parts[1] \o sep \o Join(Tail(parts), sep)

(***************************************************************************)
(* simpleHash / eventFingerprint (js/utils.js).  A uint32 is kept as its   *)
(* two 16-bit halves [hi, lo], so that hash * 33 + code wraps at 2^32      *)
(* exactly as ((hash << 5) + hash) + code followed by >>> 0 does.          *)
(***************************************************************************)
HashSeed == [hi |-> 5381 \div 65536, lo |-> 5381 % 65536]

HashStep(h, code) ==
  LET lo == h.lo * 33 + code
      hi == h.hi * 33 + (lo \div 65536)
  IN  [hi |-> hi % 65536, lo |-> lo % 65536]

RECURSIVE HashFold(_, _)
HashFold(h, s) == IF s = <<>> THEN h ELSE HashFold(HashStep(h, CharCode(Head(s))), Tail(s))

HexChars == <<"0", "1", "2", "3", "4", "5", "6", "7", "8", "9", "a", "b", "c", "d", "e", "f">>

\* the four hexadecimal digits of a 16-bit half
Hex4(n) == <<HexChars[(n \div 4096) + 1], HexChars[((n \div 256) % 16) + 1],
             HexChars[((n \div 16) % 16) + 1], HexChars[(n % 16) + 1]>>

RECURSIVE StripZeros(_)
StripZeros(s) == IF Len(s) > 1 /\ Head(s) = "0" THEN StripZeros(Tail(s)) ELSE s

\* Number.prototype.toString(16) of a uint32
ToHex(h) == StripZeros(Hex4(h.hi) \o Hex4(h.lo))

simpleHash(str) == ToHex(HashFold(HashSeed, str))

\* a parameter that is undefined takes its default ""
ParamOrEmpty(o, k) == IF k \in DOMAIN o THEN o[k] ELSE <<>>

eventFingerprintLeavingCategoryCase(o) ==
  simpleHash(Join(<<ToLowerCase(Trim(ParamOrEmpty(o, "title"))),
                    Trim(ParamOrEmpty(o, "dateISO")),
                    Trim(ParamOrEmpty(o, "category")),
                    ToLowerCase(Trim(ParamOrEmpty(o, "notes")))>>, <<"|">>))

eventFingerprint(o) ==
  simpleHash(Join(<<ToLowerCase(Trim(ParamOrEmpty(o, "title"))),
                    Trim(ParamOrEmpty(o, "dateISO")),
                    ToLowerCase(Trim(ParamOrEmpty(o, "category"))),
                    ToLowerCase(Trim(ParamOrEmpty(o, "notes")))>>, <<"|">>))

(***************************************************************************)
(* Dates: the Gregorian calendar behind new Date(y, m, d), getFullYear,    *)
(* getMonth, getDate, getDay and setDate.                                  *)
(***************************************************************************)
InvalidDate == [valid |-> FALSE, t |-> 0]

IsLeap(y) == (y % 4 = 0 /\ y % 100 # 0) \/ y % 400 = 0

\* m is 1..12
DaysInMonth(y, m) ==
  IF m = 2 THEN (IF IsLeap(y) THEN 29 ELSE 28)
  ELSE IF m \in {4, 6, 9, 11} THEN 30 ELSE 31

\* days since 1970-01-01 of the civil date y-m-d (m in 1..12, any d)
DaysFromCivil(y, m, d) ==
  LET yy  == IF m <= 2 THEN y - 1 ELSE y
      era == yy \div 400
      yoe == yy - era * 400
      mp  == IF m > 2 THEN m - 3 ELSE m + 9
      doy == (153 * mp + 2) \div 5 + d - 1
      doe == yoe * 365 + yoe \div 4 - yoe \div 100 + doy
  IN  era * 146097 + doe - 719468

\* the civil date <<y, m, d>> (m in 1..12) of a day number, in steps: the
\* 400-year era and the day of the era, the year of the era, the day of the
\* year counted from 1 March, the month counted from March
CivilOfMarchMonth(y0, doy, mp) ==
  <<y0 + (IF mp < 10 THEN 0 ELSE 1), IF mp < 10 THEN mp + 3 ELSE mp - 9,
    doy - (153 * mp + 2) \div 5 + 1>>

CivilOfMarchDay(y0, doy) == CivilOfMarchMonth(y0, doy, (5 * doy + 2) \div 153)

CivilOfYearOfEra(era, doe, yoe) ==
  CivilOfMarchDay(yoe + era * 400, doe - (365 * yoe + yoe \div 4 - yoe \div 100))

CivilOfDayOfEra(era, doe) ==
  CivilOfYearOfEra(era, doe,
                   (doe - doe \div 1460 + doe \div 36524 - doe \div 146096) \div 365)

CivilOfShifted(zz) == CivilOfDayOfEra(zz \div 146097, zz % 146097)

CivilFromDays(z) == CivilOfShifted(z + 719468)

\* new Date(year, monthIndex, day, 0,0,0,0): month and day overflow carry
\* over (new Date(2026, 1, 31) is 3 March 2026); years 0..99 mean 1900..1999
NewDate(year, monthIndex, day) ==
  LET y0 == IF year >= 0 /\ year <= 99 THEN 1900 + year ELSE year
      y  == y0 + (monthIndex \div 12)
      m  == (monthIndex % 12) + 1
  IN  [valid |-> TRUE, t |-> DaysFromCivil(y, m, 1) + day - 1]

getFullYear(date) == CivilFromDays(date.t)[1]
getMonth(date)    == CivilFromDays(date.t)[2] - 1
getDate(date)     == CivilFromDays(date.t)[3]
\* 0 = Sunday; 1970-01-01 was a Thursday
getDay(date)      == (date.t + 4) % 7

\* d.setDate(n) on a copy
setDate(date, n) == NewDate(getFullYear(date), getMonth(date), n)

\* a < b and a <= b on Dates: false as soon as one side is Invalid (NaN)
DateLT(a, b) == a.valid /\ b.valid /\ a.t < b.t
DateLE(a, b) == a.valid /\ b.valid /\ a.t <= b.t

\* toISODateLocal: yyyy-mm-dd of the local day
toISODateLocal(date) ==
  IF ~date.valid THEN <<"N", "a", "N", "-", "N", "a", "N", "-", "N", "a", "N">>
  ELSE DecimalDigits(getFullYear(date)) \o <<"-">> \o pad2(getMonth(date) + 1)
         \o <<"-">> \o pad2(getDate(date))

\* isoToDate (ui.js): split on "-", parseInt each part, new Date(y, (m||1)-1, d||1)
isoToDate(iso) ==
  LET parts == Split(iso, "-")
      num(i) == IF i <= Len(parts) THEN ParseInt(parts[i]) ELSE [nan |-> TRUE, v |-> 0]
      orOne(p) == IF p.nan \/ p.v = 0 THEN 1 ELSE p.v
  IN  IF num(1).nan THEN InvalidDate
      ELSE NewDate(num(1).v, orOne(num(2)) - 1, orOne(num(3)))

addDays(date, days) ==
  IF ~date.valid THEN InvalidDate ELSE setDate(date, getDate(date) + days)

\* d.setMonth(d.getMonth() + n) on a copy
setMonthBy(date, n) == NewDate(getFullYear(date), getMonth(date) + n, getDate(date))

\* the end of addMonthsSafe: d.setDate(Math.min(day, last)), with last the
\* last day of the month of d
setDateNoLaterThanLast(d, day, last) == setDate(d, IF day < last THEN day ELSE last)

setDateClamped(d, day) ==
  setDateNoLaterThanLast(d, day, getDate(NewDate(getFullYear(d), getMonth(d) + 1, 0)))

\* addMonthsSafe: day 1, shift the month, then min(day, last day of the month)
addMonthsSafe(date, months) ==
  IF ~date.valid THEN InvalidDate
  ELSE setDateClamped(setMonthBy(setDate(date, 1), months), getDate(date))


(***************************************************************************)
(* Month grid (js/utils.js) and recurrence expansion (js/ui.js)            *)
(***************************************************************************)
weekStartsOn == 1

GridCells == 42

StrWeekly  == <<"w", "e", "e", "k", "l", "y">>
StrMonthly == <<"m", "o", "n", "t", "h", "l", "y">>
VirtualMark == <<"_", "_", "v", "_", "_">>

startOfMonth(year, monthIndex) == NewDate(year, monthIndex, 1)

\* last day of the month; the time of day (23:59:59.999) is applied by endOfDay
endOfMonth(year, monthIndex) == NewDate(year, monthIndex + 1, 0)

\* the 42 days of the 6x7 grid, from the week start on or before the 1st
buildMonthGrid(year, monthIndex, weekStart) ==
  LET first    == startOfMonth(year, monthIndex)
      firstDow == getDay(first)
      shift    == (firstDow - weekStart + 7) % 7
      start    == setDate(first, getDate(first) - shift)
  IN  [i \in 1..GridCells |-> setDate(start, getDate(start) + (i - 1))]

makeVirtualOccurrenceWithoutTitle(ev, dateISO) ==
  [k \in (DOMAIN ev) \cup {"id", "dateISO", "_virtualFromId"} |->
     CASE k = "id" -> ev.id \o VirtualMark \o dateISO
       [] k = "dateISO" -> dateISO
       [] k = "_virtualFromId" -> ev.id
       [] k = "title" -> <<>>
       [] OTHER -> ev[k]]

\* { ...ev, id: `${ev.id}__v__${dateISO}`, dateISO, _virtualFromId: ev.id }
makeVirtualOccurrence(ev, dateISO) ==
  [k \in (DOMAIN ev) \cup {"id", "dateISO", "_virtualFromId"} |->
     CASE k = "id" -> ev.id \o VirtualMark \o dateISO
       [] k = "dateISO" -> dateISO
       [] k = "_virtualFromId" -> ev.id
       [] OTHER -> ev[k]]

IsVirtual(e) == "_virtualFromId" \in DOMAIN e

\* while (cur < fromD) cur = addDays(cur, 7)
RECURSIVE WeeklyEnter(_, _)
WeeklyEnter(cur, fromD) ==
  IF DateLT(cur, fromD) THEN WeeklyEnter(addDays(cur, 7), fromD) ELSE cur

\* while (cur <= toD) { if (iso !== startISO) push; cur = addDays(cur, 7) }
RECURSIVE WeeklyEmit(_, _, _, _)
WeeklyEmit(ev, startISO, cur, toD) ==
  IF DateLE(cur, toD)
  THEN LET iso == toISODateLocal(cur)
       IN  (IF iso # startISO THEN <<makeVirtualOccurrence(ev, iso)>> ELSE <<>>)
             \o WeeklyEmit(ev, startISO, addDays(cur, 7), toD)
  ELSE <<>>

expandWeeklyFromAnchor(ev, startISO, fromISO, toISO) ==
  WeeklyEmit(ev, startISO, isoToDate(startISO), isoToDate(toISO))

expandWeekly(ev, startISO, fromISO, toISO) ==
  LET fromD == isoToDate(fromISO)
      toD   == isoToDate(toISO)
  IN  WeeklyEmit(ev, startISO, WeeklyEnter(isoToDate(startISO), fromD), toD)

\* while (cur < bound) cur = addMonthsSafe(cur, 1)
RECURSIVE MonthlyEnter(_, _)
MonthlyEnter(cur, bound) ==
  IF DateLT(cur, bound) THEN MonthlyEnter(addMonthsSafe(cur, 1), bound) ELSE cur

RECURSIVE MonthlyEmit(_, _, _, _)
MonthlyEmit(ev, startISO, cur, toD) ==
  IF DateLE(cur, toD)
  THEN LET iso == toISODateLocal(cur)
       IN  (IF iso # startISO THEN <<makeVirtualOccurrence(ev, iso)>> ELSE <<>>)
             \o MonthlyEmit(ev, startISO, addMonthsSafe(cur, 1), toD)
  ELSE <<>>

\* the first candidate: new Date(fromD.getFullYear(), fromD.getMonth(), start.getDate())
MonthlyFirst(start, fromD) ==
  IF start.valid /\ fromD.valid
  THEN NewDate(getFullYear(fromD), getMonth(fromD), getDate(start))
  ELSE InvalidDate

expandMonthly(ev, startISO, fromISO, toISO) ==
  LET start == isoToDate(startISO)
      fromD == isoToDate(fromISO)
      toD   == isoToDate(toISO)
      cur0  == MonthlyFirst(start, fromD)
      cur1  == MonthlyEnter(cur0, start)
      cur2  == MonthlyEnter(cur1, fromD)
  IN  MonthlyEmit(ev, startISO, cur2, toD)

\* String(x || "") of a field that may be missing
FieldOrEmpty(e, k) == IF k \in DOMAIN e THEN e[k] ELSE <<>>

ExpandOneDefaultWeekly(ev, fromISO, toISO) ==
  IF Trim(FieldOrEmpty(ev, "recurrence")) = StrMonthly
  THEN expandMonthly(ev, Trim(FieldOrEmpty(ev, "dateISO")), fromISO, toISO)
  ELSE expandWeekly(ev, Trim(FieldOrEmpty(ev, "dateISO")), fromISO, toISO)

\* the occurrences one event contributes after itself
ExpandOne(ev, fromISO, toISO) ==
  LET rec      == Trim(FieldOrEmpty(ev, "recurrence"))
      startISO == Trim(FieldOrEmpty(ev, "dateISO"))
  IN  IF rec = <<>> \/ startISO = <<>> THEN <<>>
      ELSE IF rec = StrWeekly THEN expandWeekly(ev, startISO, fromISO, toISO)
      ELSE IF rec = StrMonthly THEN expandMonthly(ev, startISO, fromISO, toISO)
      ELSE <<>>

RECURSIVE ExpandAll(_, _, _)
ExpandAll(events, fromISO, toISO) ==
  IF events = <<>> THEN <<>>
  ELSE <<Head(events)>> \o ExpandOne(Head(events), fromISO, toISO)
         \o ExpandAll(Tail(events), fromISO, toISO)

\* key = `${e.id}::${e.dateISO || ""}`; the first entry of each key is kept
DedupKey(e) == e.id \o <<":", ":">> \o FieldOrEmpty(e, "dateISO")

DedupKeepingAll(list, seen) == list

RECURSIVE Dedup(_, _)
Dedup(list, seen) ==
  IF list = <<>> THEN <<>>
  ELSE IF DedupKey(Head(list)) \in seen THEN Dedup(Tail(list), seen)
  ELSE <<Head(list)>> \o Dedup(Tail(list), seen \cup {DedupKey(Head(list))})

expandRecurringKeepingOut(rawEvents, year, monthIndex) ==
  IF rout = <<>> THEN rawEvents ELSE rout[Len(rout)] \o rawEvents

expandRecurringForVisibleRange(rawEvents, year, monthIndex) ==
  LET gridDays == buildMonthGrid(year, monthIndex, weekStartsOn)
      fromISO  == toISODateLocal(gridDays[1])
      toISO    == toISODateLocal(gridDays[Len(gridDays)])
  IN  Dedup(ExpandAll(rawEvents, fromISO, toISO), {})


(***************************************************************************)
(* Calls of expandWeekly / expandMonthly on one anchored event and one     *)
(* window [fromISO, toISO]                                                 *)
(***************************************************************************)
\* anchors are the days 2026-01-01 + 0..AnchorSpan, windows start on the days
\* 2025-12-25 + 0..FromSpan and last WinLens + 1 days
AnchorSpan == 31
FromSpan == 40
WinLens == {0, 27, 30, 41, 89}

AnchorDates == {setDate(NewDate(2026, 0, 1), 1 + k) : k \in 0..AnchorSpan}
FromDates   == {setDate(NewDate(2025, 11, 25), 25 + k) : k \in 0..FromSpan}

SampleEvent(anchor, rec) ==
  [id |-> <<"e", "1">>, title |-> <<"a">>, dateISO |-> toISODateLocal(anchor),
   recurrence |-> rec]

ExpandInputs ==
  {[ev |-> SampleEvent(a, r), fromISO |-> toISODateLocal(f),
    toISO |-> toISODateLocal(addDays(f, n))] :
     a \in AnchorDates, r \in {StrWeekly, StrMonthly}, f \in FromDates, n \in WinLens}

ExpandIdle == xin = [ev |-> <<>>, fromISO |-> <<>>, toISO |-> <<>>] /\ xout = <<>> /\ xpc = "idle"

ExpandInit == xin \in ExpandInputs /\ xout = <<>> /\ xpc = "input"

CallExpandWeekly ==
  /\ xpc = "input"
  /\ xin.ev.recurrence = StrWeekly
  /\ xout' = expandWeekly(xin.ev, xin.ev.dateISO, xin.fromISO, xin.toISO)
  /\ xpc' = "weekly"
  /\ UNCHANGED <<xin, fingerprintVars, dbVars, appVars, modalVars, rangeVars>>

CallExpandMonthly ==
  /\ xpc = "input"
  /\ xin.ev.recurrence = StrMonthly
  /\ xout' = expandMonthly(xin.ev, xin.ev.dateISO, xin.fromISO, xin.toISO)
  /\ xpc' = "monthly"
  /\ UNCHANGED <<xin, fingerprintVars, dbVars, appVars, modalVars, rangeVars>>

(***************************************************************************)
(* Claims about expandWeekly and expandMonthly (checked under SpecExpand)  *)
(***************************************************************************)
XAnchor == isoToDate(xin.ev.dateISO)
XFrom   == isoToDate(xin.fromISO)
XTo     == isoToDate(xin.toISO)
XOutDates == {xout[i].dateISO : i \in 1..Len(xout)}
MonthNo(date) == getFullYear(date) * 12 + getMonth(date)
LastDayOf(monthNo) == DaysInMonth(monthNo \div 12, (monthNo % 12) + 1)
MinOf(a, b) == IF a < b THEN a ELSE b

\* C1: the weekly occurrences of an anchored event over a window [from, to]
\* are exactly the dates anchor + 7k, k >= 1, with from <= date <= to, each
\* once: none is the anchor, none lies outside the window, none is missing.
C1_WeeklyExact ==
  xpc = "weekly" =>
    /\ XOutDates = {toISODateLocal([valid |-> TRUE, t |-> t]) :
                      t \in {u \in XFrom.t..XTo.t :
                               u > XAnchor.t /\ (u - XAnchor.t) % 7 = 0}}
    /\ \A i, j \in 1..Len(xout) : xout[i].dateISO = xout[j].dateISO => i = j
    /\ \A i \in 1..Len(xout) : IsVirtual(xout[i]) /\ xout[i].dateISO # xin.ev.dateISO

\* C1 witness: anchor 2026-01-05 over 2026-01-01..2026-01-31 gave 01-12, 01-19, 01-26
C1_Witness ==
  /\ xpc = "weekly"
  /\ XAnchor = NewDate(2026, 0, 5) /\ XFrom = NewDate(2026, 0, 1) /\ XTo = NewDate(2026, 0, 31)
  /\ [i \in 1..Len(xout) |-> isoToDate(xout[i].dateISO)]
       = <<NewDate(2026, 0, 12), NewDate(2026, 0, 19), NewDate(2026, 0, 26)>>

\* C2: every monthly occurrence falls on day min(anchor day, last day of its
\* month) of its month, and successive occurrences fall in successive months.
C2_MonthlyDayOfMonth ==
  xpc = "monthly" =>
    /\ \A i \in 1..Len(xout) :
         LET occ == isoToDate(xout[i].dateISO)
         IN  getDate(occ) = MinOf(getDate(XAnchor), LastDayOf(MonthNo(occ)))
    /\ \A i \in 1..(Len(xout) - 1) :
         MonthNo(isoToDate(xout[i + 1].dateISO)) = MonthNo(isoToDate(xout[i].dateISO)) + 1

\* C3: when the window covers a whole calendar month M later than the
\* anchor's month, exactly one monthly occurrence lies in M, and it is dated
\* day min(anchor day, last day of M).
C3_OnePerCoveredMonth ==
  xpc = "monthly" =>
    \A mn \in (MonthNo(XAnchor) + 1)..(MonthNo(XAnchor) + 4) :
      LET first == NewDate(mn \div 12, mn % 12, 1)
          last  == NewDate(mn \div 12, mn % 12, LastDayOf(mn))
          want  == NewDate(mn \div 12, mn % 12, MinOf(getDate(XAnchor), LastDayOf(mn)))
          inM   == {i \in 1..Len(xout) : MonthNo(isoToDate(xout[i].dateISO)) = mn}
      IN  (DateLE(XFrom, first) /\ DateLE(last, XTo)) =>
            /\ Cardinality(inM) = 1
            /\ \A i \in inM : isoToDate(xout[i].dateISO) = want


(***************************************************************************)
(* Data layer (js/db.js): values                                           *)
(*                                                                         *)
(* An input object is a function from the keys it defines to strings; a    *)
(* key that is undefined or null is not in its domain.  An optional value  *)
(* is <<>> (null / undefined) or <<v>>.                                    *)
(***************************************************************************)
StrPending   == <<"p", "e", "n", "d", "i", "n", "g">>
StrDone      == <<"d", "o", "n", "e">>
StrCancelled == <<"c", "a", "n", "c", "e", "l", "l", "e", "d">>
StrManual    == <<"m", "a", "n", "u", "a", "l">>

NullValue == <<>>
ServerTimestamp == <<"serverTimestamp">>

ALLOWED_STATUS == {StrPending, StrDone, StrCancelled}
ALLOWED_RECURRENCE == {<<>>, StrWeekly, StrMonthly}

TrackedFields == {"title", "category", "status", "notes", "dateISO", "assignedTo", "recurrence"}

Opt(o, k) == IF k \in DOMAIN o THEN <<o[k]>> ELSE <<>>

\* a ?? b ?? ... : the first value that is neither null nor undefined
RECURSIVE Coalesce(_)
Coalesce(opts) ==
  IF opts = <<>> THEN <<>>
  ELSE IF Head(opts) # <<>> THEN Head(opts) ELSE Coalesce(Tail(opts))

\* String(v || "")
OrEmpty(opt) == IF opt = <<>> THEN <<>> ELSE opt[1]

\* normText(s) = String(s || "").trim()
normText(opt) == Trim(OrEmpty(opt))

\* { ...o, [k]: v }
With(o, k, v) == [x \in (DOMAIN o) \cup {k} |-> IF x = k THEN v ELSE o[x]]

IsStrictISOShape(s) ==
  /\ Len(s) = 10
  /\ \A i \in {1, 2, 3, 4, 6, 7, 9, 10} : IsDigit(s[i])
  /\ s[5] = "-" /\ s[8] = "-"

\* isValidISODate: /^\d{4}-\d{2}-\d{2}$/ and a real calendar date
isValidISODate(dateISO) ==
  /\ dateISO # <<>>
  /\ IsStrictISOShape(dateISO)
  /\ LET parts == Split(dateISO, "-")
         y == ParseInt(parts[1]).v
         m == ParseInt(parts[2]).v
         d == ParseInt(parts[3]).v
         dt == NewDate(y, m - 1, d)
     IN  /\ y # 0 /\ m # 0 /\ d # 0
         /\ getFullYear(dt) = y /\ getMonth(dt) + 1 = m /\ getDate(dt) = d

normalizeStatusKeeping(raw) ==
  IF Trim(OrEmpty(raw)) = <<>> THEN StrPending ELSE Trim(OrEmpty(raw))

normalizeStatus(raw) ==
  LET r  == IF OrEmpty(raw) = <<>> THEN StrPending ELSE raw[1]
      st == IF Trim(r) = <<>> THEN StrPending ELSE Trim(r)
  IN  IF st \in ALLOWED_STATUS THEN st ELSE StrPending

normalizeRecurrence(raw) ==
  LET r == normText(raw)
  IN  IF r \in ALLOWED_RECURRENCE THEN r ELSE <<>>

sameStr(a, b) == a = b

\* dateISOToTimestamp: Timestamp of the local midnight of a valid yyyy-mm-dd
dateISOToTimestamp(dateISO) ==
  LET iso   == Trim(dateISO)
      parts == Split(iso, "-")
  IN  NewDate(ParseInt(parts[1]).v, ParseInt(parts[2]).v - 1, ParseInt(parts[3]).v)

\* toDateISO(value): "" for a missing value
toDateISO(value) == IF value = NullValue THEN <<>> ELSE toISODateLocal(value)

extractAssignedTo(input, fallback) ==
  normText(Coalesce(<<Opt(input, "assignedTo"), Opt(input, "assignee"), Opt(input, "assigned"),
                      Opt(fallback, "assignedTo"), Opt(fallback, "assignee")>>))

extractRecurrence(input, fallback) ==
  normalizeRecurrence(Coalesce(<<Opt(input, "recurrence"), Opt(input, "repeat"),
                                 Opt(input, "repetition"), Opt(fallback, "recurrence")>>))

extractDateISO(input, fallback) ==
  normText(Coalesce(<<Opt(input, "dateISO"), Opt(input, "date"), Opt(input, "dateStr"),
                      Opt(fallback, "dateISO"), Opt(fallback, "date")>>))

ValidateNormalizedAnyDate(n) ==
  IF n.title = <<>> THEN [ok |-> FALSE, error |-> "El titulo es obligatorio."]
  ELSE IF n.category = <<>> THEN [ok |-> FALSE, error |-> "La categoria es obligatoria."]
  ELSE IF n.dateISO = <<>> THEN [ok |-> FALSE, error |-> "La fecha es obligatoria."]
  ELSE [ok |-> TRUE, v |-> n]

\* the checks both normalizers end with; the result is the normalized record
\* or the validation error thrown
ValidateNormalized(n) ==
  IF n.title = <<>> THEN [ok |-> FALSE, error |-> "El titulo es obligatorio."]
  ELSE IF n.category = <<>> THEN [ok |-> FALSE, error |-> "La categoria es obligatoria."]
  ELSE IF n.dateISO = <<>> THEN [ok |-> FALSE, error |-> "La fecha es obligatoria."]
  ELSE IF ~isValidISODate(n.dateISO) THEN [ok |-> FALSE, error |-> "Fecha invalida."]
  ELSE [ok |-> TRUE, v |-> n]

normalizeEventInputStrict(input) ==
  ValidateNormalized(
    [title      |-> normText(Opt(input, "title")),
     category   |-> normText(Opt(input, "category")),
     notes      |-> normText(Opt(input, "notes")),
     status     |-> normalizeStatus(Opt(input, "status")),
     dateISO    |-> extractDateISO(input, <<>>),
     assignedTo |-> extractAssignedTo(input, <<>>),
     recurrence |-> extractRecurrence(input, <<>>)])

normalizeEventInputTolerant(input, fallback) ==
  ValidateNormalized(
    [title      |-> normText(Coalesce(<<Opt(input, "title"), Opt(fallback, "title")>>)),
     category   |-> normText(Coalesce(<<Opt(input, "category"), Opt(fallback, "category")>>)),
     notes      |-> normText(Coalesce(<<Opt(input, "notes"), Opt(fallback, "notes")>>)),
     status     |-> normalizeStatus(Coalesce(<<Opt(input, "status"), Opt(fallback, "status"),
                                               <<StrPending>> >>)),
     dateISO    |-> extractDateISO(input, fallback),
     assignedTo |-> extractAssignedTo(input, fallback),
     recurrence |-> extractRecurrence(input, fallback)])

\* the document createEvent hands to addDoc
CreatePayload(n, input, email) ==
  [title |-> n.title, category |-> n.category, status |-> n.status, notes |-> n.notes,
   assignedTo |-> n.assignedTo, recurrence |-> n.recurrence,
   dateStart |-> dateISOToTimestamp(n.dateISO), dateISO |-> n.dateISO,
   createdBy |-> email, createdAt |-> ServerTimestamp,
   updatedAt |-> ServerTimestamp, updatedBy |-> email,
   deletedAt |-> NullValue,
   source |-> (IF normText(Opt(input, "source")) = <<>> THEN StrManual
               ELSE normText(Opt(input, "source"))),
   sourceHash |-> (IF OrEmpty(Opt(input, "sourceHash")) = <<>> THEN NullValue
                   ELSE <<normText(Opt(input, "sourceHash"))>>)]

\* the patch updateEvent hands to updateDoc
UpdatePatch(incoming, email) ==
  [title |-> incoming.title, category |-> incoming.category, status |-> incoming.status,
   notes |-> incoming.notes, assignedTo |-> incoming.assignedTo,
   recurrence |-> incoming.recurrence,
   dateStart |-> dateISOToTimestamp(incoming.dateISO), dateISO |-> incoming.dateISO,
   updatedAt |-> ServerTimestamp, updatedBy |-> email]

\* { ...a, ...b }
Spread(a, b) == [k \in (DOMAIN a) \cup (DOMAIN b) |-> IF k \in DOMAIN b THEN b[k] ELSE a[k]]

\* the comparison of the seven tracked fields in updateEvent and upsertMany
Changed(a, b) == \E f \in TrackedFields : ~sameStr(a[f], b[f])

\* mapEventDoc with the status of a pending event whatever the document holds
mapEventDocPending(id, data) ==
  [id |-> id,
   title |-> data.title, category |-> data.category,
   status |-> StrPending,
   notes |-> data.notes,
   assignedTo |-> data.assignedTo, recurrence |-> data.recurrence,
   dateStart |-> data.dateStart,
   dateISO |-> (IF data.dateISO = <<>> THEN toDateISO(data.dateStart) ELSE data.dateISO),
   createdBy |-> data.createdBy, createdAt |-> data.createdAt,
   updatedAt |-> data.updatedAt, updatedBy |-> data.updatedBy,
   deletedAt |-> data.deletedAt,
   source |-> (IF data.source = <<>> THEN StrManual ELSE data.source),
   sourceHash |-> (IF OrEmpty(data.sourceHash) = <<>> THEN NullValue ELSE data.sourceHash)]

mapEventDoc(id, data) ==
  [id |-> id,
   title |-> data.title, category |-> data.category,
   status |-> (IF data.status = <<>> THEN StrPending ELSE data.status),
   notes |-> data.notes,
   assignedTo |-> data.assignedTo, recurrence |-> data.recurrence,
   dateStart |-> data.dateStart,
   dateISO |-> (IF data.dateISO = <<>> THEN toDateISO(data.dateStart) ELSE data.dateISO),
   createdBy |-> data.createdBy, createdAt |-> data.createdAt,
   updatedAt |-> data.updatedAt, updatedBy |-> data.updatedBy,
   deletedAt |-> data.deletedAt,
   source |-> (IF data.source = <<>> THEN StrManual ELSE data.source),
   sourceHash |-> (IF OrEmpty(data.sourceHash) = <<>> THEN NullValue ELSE data.sourceHash)]

(***************************************************************************)
(* Data layer (js/db.js): the store and the calls in flight                *)
(*                                                                         *)
(* store maps the id of every document of the "events" collection to its   *)
(* data.  run[r] is one call of the data layer (upsertMany, updateEvent):  *)
(* its local variables and, in pc, the Firestore request it awaits.  A     *)
(* step of a call is the completion of that request followed by the code   *)
(* up to the next await.  log is the history of the call: for every record *)
(* it has finished, what the store held at that moment and what was        *)
(* written.  prev remembers the batch of the upsertMany call that ended    *)
(* last when nothing was started since.  calls counts the calls started,   *)
(* faults the requests that failed.                                        *)
(***************************************************************************)
Runners == {1, 2}
MaxDocs == 3
MaxFaults == 1
MaxCalls == 2
InLimit == 10

UserEmail == <<"u">>

DocId(n) == <<"d">> \o DecimalDigits(n)

NoPrev == [items |-> <<>>, results |-> <<>>]

ZeroResults == [created |-> 0, updated |-> 0, skipped |-> 0, errors |-> 0]

IdleRun ==
  [kind |-> "none", pc |-> "idle", items |-> <<>>, idx |-> 0, map |-> <<>>,
   results |-> ZeroResults, out |-> <<>>, pend |-> <<>>, log |-> <<>>, ret |-> "none"]

\* a lookup by sourceHash that leaves the events of the bin out
IdsWithHashLive(st, sh) ==
  {id \in DOMAIN st : st[id].sourceHash = <<sh>> /\ st[id].deletedAt = NullValue}

\* the ids of the documents where("sourceHash", "==", sh) (or "in", with sh in
\* the chunk) selects
IdsWithHash(st, sh) == {id \in DOMAIN st : st[id].sourceHash = <<sh>>}

\* raw?.sourceHash of a record, trimmed
RowHash(raw) == normText(Opt(raw, "sourceHash"))

\* what the store holds for a record at the moment it is finished
Observed(st, raw) ==
  LET ids == IF RowHash(raw) = <<>> THEN {} ELSE IdsWithHash(st, RowHash(raw))
  IN  [matches |-> ids,
       differs |-> \E id \in ids :
                     LET ex == mapEventDoc(id, st[id])
                         n  == normalizeEventInputTolerant(raw, ex)
                     IN  n.ok /\ Changed(n.v, ex)]

\* the history of a finished record: the record, how it was counted, what was
\* written, and the store as it was when the record was finished (before the
\* write, when it wrote)
LogEntry(st, raw, outcome, write) ==
  [raw |-> raw, outcome |-> outcome, write |-> write, st |-> st]

NoWrite == [op |-> "none"]

\* the end of one record of the batch: the for loop goes on with the next
NextItem(L, st, outcome, write, item) ==
  [L EXCEPT !.pc = "loop", !.idx = @ + 1, !.pend = <<>>,
            !.results[outcome] = @ + 1,
            !.out = IF item = <<>> THEN @ ELSE Append(@, item[1]),
            !.log = Append(@, LogEntry(st, L.items[L.idx], outcome, write))]

ItemErrorAbortsBatch(L, st) ==
  [L EXCEPT !.pc = "done", !.pend = <<>>, !.results.errors = @ + 1,
            !.log = Append(@, LogEntry(st, L.items[L.idx], "errors", NoWrite))]

\* a record whose processing threw: the catch of upsertMany counts it
ItemError(L, st) == NextItem(L, st, "errors", NoWrite, <<>>)

\* the end of a call: of a record of upsertMany, or of a single updateEvent
Finish(L, st, outcome, write, item) ==
  IF L.kind = "upsertMany"
  THEN IF outcome = "errors" THEN ItemError(L, st)
       ELSE NextItem(L, st, outcome, write, item)
  ELSE [L EXCEPT !.pc = "done", !.pend = <<>>, !.ret = outcome,
                 !.out = IF item = <<>> THEN @ ELSE item,
                 !.log = Append(@, LogEntry(st, L.input, outcome, write))]

\* createEvent up to its await addDoc
BeginCreate(L, st, input) ==
  LET n == normalizeEventInputStrict(input)
  IN  IF ~n.ok THEN Finish(L, st, "errors", NoWrite, <<>>)
      ELSE [L EXCEPT !.pc = "add",
                     !.pend = [payload |-> CreatePayload(n.v, input, UserEmail)]]

\* updateEvent up to its await getDoc
BeginUpdate(L, st, eventId, input, existing) ==
  IF Trim(eventId) = <<>> THEN Finish(L, st, "errors", NoWrite, <<>>)
  ELSE [L EXCEPT !.pc = "get",
                 !.pend = [id |-> Trim(eventId), input |-> input, existing |-> existing]]

MergeWithoutComparison(L, st, raw, existing) ==
  LET n == normalizeEventInputTolerant(raw, existing)
  IN  IF ~n.ok THEN ItemError(L, st)
      ELSE BeginUpdate(L, st, existing.id, n.v, existing)

\* upsertMany from the merge of a record over the event found for its hash
Merge(L, st, raw, existing) ==
  LET n == normalizeEventInputTolerant(raw, existing)
  IN  IF ~n.ok THEN ItemError(L, st)
      ELSE IF ~Changed(n.v, existing) THEN NextItem(L, st, "skipped", NoWrite, <<existing>>)
      ELSE BeginUpdate(L, st, existing.id, n.v, existing)

\* one record of the for loop of upsertMany, up to its first await
StepItem(L, st) ==
  LET raw == L.items[L.idx]
      sourceHash == RowHash(raw)
  IN  IF sourceHash = <<>> THEN BeginCreate(L, st, raw)
      ELSE IF sourceHash \in DOMAIN L.map THEN Merge(L, st, raw, L.map[sourceHash])
      ELSE [L EXCEPT !.pc = "find", !.pend = [hash |-> sourceHash]]

\* the code that runs once a request has completed: the for loop of upsertMany
\* goes on (pc = "loop") until a record awaits a request or the batch ends
RECURSIVE RunItems(_, _)
RunItems(L, st) ==
  IF L.pc # "loop" THEN L
  ELSE IF L.idx > Len(L.items) THEN [L EXCEPT !.pc = "done", !.pend = <<>>]
  ELSE RunItems(StepItem(L, st), st)

\* Array.from(new Set(list)): the first occurrence of each element, in order
RECURSIVE Uniq(_, _)
Uniq(list, seen) ==
  IF list = <<>> THEN <<>>
  ELSE IF Head(list) \in seen THEN Uniq(Tail(list), seen)
  ELSE <<Head(list)>> \o Uniq(Tail(list), seen \cup {Head(list)})

\* items.map(r => normText(r?.sourceHash || "")).filter(Boolean)
BatchHashes(items) == SelectSeq([i \in 1..Len(items) |-> RowHash(items[i])], LAMBDA h : h # <<>>)

\* upsertMany(events, userEmail) up to its first await
StartUpsertMany(r, batch) ==
  /\ run[r].pc \in {"idle", "done"}
  /\ calls < MaxCalls
  /\ calls' = calls + 1
  /\ LET L0   == [IdleRun EXCEPT !.kind = "upsertMany", !.items = batch, !.idx = 1,
                                  !.pc = "loop"]
         uniq == Uniq(BatchHashes(batch), {})
     IN  run' = [run EXCEPT ![r] =
                   IF uniq = <<>> THEN RunItems(L0, store)
                   ELSE [L0 EXCEPT !.pc = "bulk", !.pend = [uniq |-> uniq, at |-> 0]]]
  /\ prev' = IF run[r].kind = "upsertMany" /\ run[r].pc = "done"
             THEN [items |-> run[r].items, results |-> run[r].results]
             ELSE NoPrev
  /\ UNCHANGED <<store, faults, expandVars, fingerprintVars, appVars, modalVars, rangeVars>>

\* one where("sourceHash", "in", chunk) query of findManyBySourceHash: at most
\* InLimit documents come back, and for a hash that several of them carry the
\* one the Map keeps is the last in the order of the (random) document ids
ResolveBulk(r) ==
  /\ run[r].pc = "bulk"
  /\ LET L     == run[r]
         uniq  == L.pend.uniq
         upTo  == IF L.pend.at + InLimit < Len(uniq) THEN L.pend.at + InLimit ELSE Len(uniq)
         chunk == {uniq[i] : i \in (L.pend.at + 1)..upTo}
         hits  == UNION {IdsWithHash(store, h) : h \in chunk}
         take  == IF Cardinality(hits) < InLimit THEN Cardinality(hits) ELSE InLimit
     IN  \E docs \in {d \in SUBSET hits : Cardinality(d) = take} :
           LET found == {h \in chunk : \E id \in docs : store[id].sourceHash = <<h>>}
           IN  \E pick \in [found -> docs] :
                 /\ \A h \in found : store[pick[h]].sourceHash = <<h>>
                 /\ LET map1 == [h \in (DOMAIN L.map) \cup found |->
                                   IF h \in found THEN mapEventDoc(pick[h], store[pick[h]])
                                   ELSE L.map[h]]
                        L1   == [L EXCEPT !.map = map1]
                    IN  run' = [run EXCEPT ![r] =
                                  IF upTo < Len(uniq)
                                  THEN [L1 EXCEPT !.pend.at = upTo]
                                  ELSE RunItems([L1 EXCEPT !.pc = "loop"], store)]
  /\ UNCHANGED <<store, faults, prev, calls, expandVars, fingerprintVars, appVars, modalVars, rangeVars>>

\* findEventBySourceHash: where("sourceHash", "==", sh), limit(1)
ResolveFind(r) ==
  /\ run[r].pc = "find"
  /\ LET L   == run[r]
         sh  == L.pend.hash
         raw == L.items[L.idx]
         ids == IdsWithHash(store, sh)
     IN  IF ids = {}
         THEN run' = [run EXCEPT ![r] =
                        RunItems(BeginCreate(L, store, With(raw, "sourceHash", sh)), store)]
         ELSE \E id \in ids :
                LET ex == mapEventDoc(id, store[id])
                    L1 == [L EXCEPT !.map = With(L.map, sh, ex)]
                IN  run' = [run EXCEPT ![r] = RunItems(Merge(L1, store, raw, ex), store)]
  /\ UNCHANGED <<store, faults, prev, calls, expandVars, fingerprintVars, appVars, modalVars, rangeVars>>

\* addDoc completes: the document exists under a fresh id
CommitAdd(r) ==
  /\ run[r].pc = "add"
  /\ Cardinality(DOMAIN store) < MaxDocs
  /\ LET L  == run[r]
         id == DocId(Cardinality(DOMAIN store) + 1)
         st == With(store, id, L.pend.payload)
     IN  /\ store' = st
         /\ run' = [run EXCEPT ![r] =
                      RunItems(Finish(L, store, "created",
                                      [op |-> "create", id |-> id, after |-> L.pend.payload],
                                      <<With(L.pend.payload, "id", id)>>), st)]
  /\ UNCHANGED <<faults, prev, calls, expandVars, fingerprintVars, appVars, modalVars, rangeVars>>

\* getDoc of updateEvent completes; the code runs up to updateDoc, or returns
\* the existing event with _skipped when no tracked field differs
GetContinues(L, st) ==
  LET id == L.pend.id
  IN  IF id \notin DOMAIN st THEN Finish(L, st, "errors", NoWrite, <<>>)
      ELSE LET existing == mapEventDoc(id, st[id])
               n        == normalizeEventInputTolerant(L.pend.input, existing)
           IN  IF ~n.ok THEN Finish(L, st, "errors", NoWrite, <<>>)
               ELSE IF ~Changed(existing, UpdatePatch(n.v, UserEmail))
               THEN IF L.kind = "upsertMany"
                    THEN Finish(L, st, "updated", NoWrite,
                                <<Spread(L.pend.existing, L.pend.input)>>)
                    ELSE Finish(L, st, "skipped", NoWrite,
                                <<With(existing, "_skipped", TRUE)>>)
               ELSE [L EXCEPT !.pc = "update",
                              !.pend = With(With(L.pend, "patch", UpdatePatch(n.v, UserEmail)),
                                            "snap", existing)]

ResolveGet(r) ==
  /\ run[r].pc = "get"
  /\ run' = [run EXCEPT ![r] = RunItems(GetContinues(run[r], store), store)]
  /\ UNCHANGED <<store, faults, prev, calls, expandVars, fingerprintVars, appVars, modalVars, rangeVars>>

\* updateDoc completes: the patch is merged into the document
CommitUpdate(r) ==
  /\ run[r].pc = "update"
  /\ run[r].pend.id \in DOMAIN store
  /\ LET L   == run[r]
         id  == L.pend.id
         doc == Spread(store[id], L.pend.patch)
         st  == [store EXCEPT ![id] = doc]
         w   == [op |-> "update", id |-> id, before |-> store[id], after |-> doc]
     IN  /\ store' = st
         /\ run' = [run EXCEPT ![r] =
                      RunItems(Finish(L, store, "updated", w,
                                      IF L.kind = "upsertMany"
                                      THEN <<Spread(L.pend.existing, L.pend.input)>>
                                      ELSE IF "snap" \in DOMAIN L.pend
                                      THEN <<Spread(L.pend.snap, L.pend.patch)>>
                                      ELSE <<>>), st)]
  /\ UNCHANGED <<faults, prev, calls, expandVars, fingerprintVars, appVars, modalVars, rangeVars>>

\* the request a call awaits fails (network, permissions): findManyBySourceHash
\* failing is caught and leaves an empty Map, any other failure is thrown
FailPending(r) ==
  /\ run[r].pc \in {"bulk", "find", "add", "get", "update", "query", "getone"}
  /\ faults < MaxFaults
  /\ faults' = faults + 1
  /\ run' = [run EXCEPT ![r] =
               IF run[r].pc = "bulk"
               THEN RunItems([run[r] EXCEPT !.pc = "loop", !.map = <<>>, !.pend = <<>>], store)
               ELSE RunItems(Finish(run[r], store, "errors", NoWrite, <<>>), store)]
  /\ UNCHANGED <<store, prev, calls, expandVars, fingerprintVars, appVars, modalVars, rangeVars>>

\* updateEvent(eventId, input, userEmail) up to its await getDoc
StartUpdateEvent(r, eventId, input) ==
  /\ run[r].pc \in {"idle", "done"}
  /\ calls < MaxCalls
  /\ calls' = calls + 1
  /\ run' = [run EXCEPT ![r] =
               BeginUpdate(With(With([IdleRun EXCEPT !.kind = "updateEvent"], "input", input),
                                "eventId", eventId),
                           store, eventId, input, <<>>)]
  /\ prev' = NoPrev
  /\ UNCHANGED <<store, faults, expandVars, fingerprintVars, appVars, modalVars, rangeVars>>

(***************************************************************************)
(* The rows an import hands to upsertMany and the inputs of updateEvent    *)
(***************************************************************************)
\* all sequences of at most n elements of a set
RECURSIVE SeqsUpTo(_, _)
SeqsUpTo(elements, n) ==
  IF n = 0 THEN {<<>>}
  ELSE LET shorter == SeqsUpTo(elements, n - 1)
       IN  shorter \cup {Append(s, c) : s \in shorter, c \in elements}

Date0105 == <<"2", "0", "2", "6", "-", "0", "1", "-", "0", "5">>
Date0131 == <<"2", "0", "2", "6", "-", "0", "1", "-", "3", "1">>

\* an import row carries the fingerprint of its own fields as sourceHash
Fingerprinted(row) == With(row, "sourceHash", eventFingerprint(row))

RowPlain == [title |-> <<"a">>, dateISO |-> Date0105, category |-> <<"c">>, notes |-> <<>>]

\* the same event typed with other casing and surrounding white space
RowRecased == [title |-> <<" ", "A", " ">>, dateISO |-> Date0105, category |-> <<"c">>,
               notes |-> <<>>]

RowBlankTitle == [title |-> <<" ">>, dateISO |-> Date0105, category |-> <<"c">>, notes |-> <<>>]

RowOther == [title |-> <<"b">>, dateISO |-> Date0131, category |-> <<"c">>, notes |-> <<>>]

Rows ==
  { Fingerprinted(RowPlain),
    Fingerprinted(RowRecased),
    With(Fingerprinted(RowPlain), "status", StrDone),
    Fingerprinted(RowBlankTitle),
    Fingerprinted(RowOther),
    RowOther }

MaxBatch == 2

Batches == SeqsUpTo(Rows, MaxBatch) \ {<<>>}

UpdateInputs ==
  { [status |-> StrDone],
    [repeat |-> StrWeekly],
    [assignedTo |-> <<" ", "n">>] }

(***************************************************************************)
(* Calls of eventFingerprint on two rows                                   *)
(***************************************************************************)
\* titles are all strings of at most FpMaxLen characters over FpAlphabet
FpMaxLen == 2
FpAlphabet == {"a", "A", " "}

FpRows ==
  {[title |-> t, dateISO |-> d, category |-> c, notes |-> n] :
     t \in SeqsUpTo(FpAlphabet, FpMaxLen),
     d \in {Date0105, <<" ">> \o Date0105},
     c \in {<<"c">>, <<"C", " ">>},
     n \in {<<"x">>, <<"\t", "X">>}}

FingerprintIdle == fin = <<>> /\ fout = <<>> /\ fpc = "idle"

FingerprintInit == fin \in FpRows \X FpRows /\ fout = <<>> /\ fpc = "input"

CallEventFingerprint ==
  /\ fpc = "input"
  /\ fout' = <<eventFingerprint(fin[1]), eventFingerprint(fin[2])>>
  /\ fpc' = "hashed"
  /\ UNCHANGED <<fin, expandVars, dbVars, appVars, modalVars, rangeVars>>

\* the four fields as the claim normalizes them
FpNormalized(o) ==
  <<ToLowerCase(Trim(o.title)), Trim(o.dateISO), ToLowerCase(Trim(o.category)),
    ToLowerCase(Trim(o.notes))>>

\* C10: two rows whose title, category and notes are equal after trimming and
\* lower-casing and whose dateISO is equal after trimming have the same
\* fingerprint, whatever their raw casing and surrounding white space.
C10_FingerprintOfNormalized ==
  fpc = "hashed" => (FpNormalized(fin[1]) = FpNormalized(fin[2]) => fout[1] = fout[2])

\* C10 witness: two rows that differ in their raw text got the same fingerprint
C10_Witness ==
  /\ fpc = "hashed"
  /\ fin[1] # fin[2]
  /\ fin[1].title # fin[2].title /\ fin[1].category # fin[2].category
  /\ fin[1].notes # fin[2].notes /\ fin[1].dateISO # fin[2].dateISO
  /\ FpNormalized(fin[1]) = FpNormalized(fin[2])
  /\ fout[1] = fout[2]

(***************************************************************************)
(* Claims about upsertMany and updateEvent with one client (SpecDb)        *)
(***************************************************************************)
\* the call of client 1 is an upsertMany that has returned
Returned == run[1].kind = "upsertMany" /\ run[1].pc = "done"

Wrote(e) == e.write.op # "none"

\* the second of two passes of one batch, with nothing started in between
SecondPass == Returned /\ prev.items = run[1].items /\ run[1].items # <<>>

DistinctFingerprints(items) ==
  /\ \A i \in 1..Len(items) : RowHash(items[i]) # <<>>
  /\ \A i, j \in 1..Len(items) : RowHash(items[i]) = RowHash(items[j]) => i = j

C6_CreateUpdateOrSkip ==
  run[1].kind = "upsertMany" =>
    \A i \in 1..Len(run[1].log) :
      LET e == run[1].log[i]
          seen == Observed(e.st, e.raw)
      IN  (RowHash(e.raw) # <<>> /\ e.outcome # "errors") =>
            /\ e.outcome = "created" <=> seen.matches = {}
            /\ (seen.matches # {} /\ seen.differs) =>
                 e.outcome = "updated" /\ e.write.op = "update"
            /\ (seen.matches # {} /\ ~seen.differs) =>
                 e.outcome = "skipped" /\ ~Wrote(e)

\* C8: a returned upsertMany has processed every record of its batch; its four
\* counters sum to the batch size, the item list has one entry per record
\* created, updated or skipped, and nothing was thrown to the caller.
C8_EveryRecordCounted ==
  Returned =>
    LET res == run[1].results
    IN  /\ res.created + res.updated + res.skipped + res.errors = Len(run[1].items)
        /\ Len(run[1].out) = res.created + res.updated + res.skipped
        /\ Len(run[1].log) = Len(run[1].items)
        /\ run[1].ret = "none"

\* C8 witness: a batch whose first record failed and whose last was written
C8_Witness ==
  /\ Returned
  /\ Len(run[1].log) = MaxBatch
  /\ run[1].log[1].outcome = "errors"
  /\ run[1].log[MaxBatch].outcome \in {"created", "updated"}
  /\ Wrote(run[1].log[MaxBatch])

\* the keys an incoming record may give a tracked field under
FieldKeys(f) ==
  CASE f = "assignedTo" -> {"assignedTo", "assignee", "assigned"}
    [] f = "recurrence" -> {"recurrence", "repeat", "repetition"}
    [] f = "dateISO"    -> {"dateISO", "date", "dateStr"}
    [] OTHER            -> {f}

Absent(raw, f) == FieldKeys(f) \cap DOMAIN raw = {}

\* C9: an update written by updateEvent or by the merge of upsertMany leaves
\* every tracked field the incoming record does not carry at its stored value.
C9_AbsentFieldsKept ==
  \A i \in 1..Len(run[1].log) :
    LET e == run[1].log[i]
    IN  e.write.op = "update" =>
          \A f \in TrackedFields :
            Absent(e.raw, f) => e.write.after[f] = e.write.before[f]

(***************************************************************************)
(* Two clients importing at the same time (SpecConc)                       *)
(***************************************************************************)
\* the batches two importers hand in: they share the record of RowPlain
ConcBatches ==
  { <<Fingerprinted(RowPlain)>>,
    <<Fingerprinted(RowRecased)>>,
    <<Fingerprinted(RowOther), Fingerprinted(RowPlain)>> }

\* C7: no two persisted events carry the same sourceHash.
C7_OneEventPerSourceHash ==
  \A a, b \in DOMAIN store :
    (store[a].sourceHash # NullValue /\ store[a].sourceHash = store[b].sourceHash) => a = b

(***************************************************************************)
(* The application (js/app.js over js/ui.js and js/db.js)                  *)
(*                                                                         *)
(* session is CURRENT_USER / USER_EMAIL / uiInitialized.  unsubMonth is    *)
(* <<>> or the live onSnapshot listener: the range its query asks for and  *)
(* whether the listener has been handed the current result of the query.   *)
(***************************************************************************)
MaxEvents == 2
MaxShift == 1

NoSession == [CURRENT_USER |-> <<>>, USER_EMAIL |-> <<>>, uiInitialized |-> FALSE]

\* what auth.js may dispatch as detail.user
Users == {<<>>, <<[email |-> <<"U", " ">>]>>}

\* what readModalPayload returns for the form of a new event
ModalPayloads ==
  {[title |-> <<"a">>, category |-> <<"c">>, dateISO |-> d, status |-> StrPending,
    notes |-> <<>>, assignedTo |-> <<>>, recurrence |-> r] :
     d \in {Date0105, Date0131}, r \in {<<>>, StrWeekly, StrMonthly}}

\* a Date that is not a local midnight carries its time of day in ms
DayMs == 86400000
MsOf(d) == IF "ms" \in DOMAIN d THEN d.ms ELSE 0
\* a <= b for two Dates or Timestamps
InstantLE(a, b) == a.t < b.t \/ (a.t = b.t /\ MsOf(a) <= MsOf(b))
startOfDay(d) == With(d, "ms", 0)
endOfDay(d) == With(d, "ms", DayMs - 1)

monthRange(year, monthIndex) ==
  [from |-> startOfMonth(year, monthIndex), to |-> endOfMonth(year, monthIndex)]

\* the documents buildRangeQuery selects: deletedAt == null and dateStart
\* between the start of the first day and the end of the last day
buildRangeQueryFromInstant(st, fromDate, toDate) ==
  {id \in DOMAIN st :
     /\ st[id].deletedAt = NullValue
     /\ InstantLE(fromDate, st[id].dateStart)
     /\ InstantLE(st[id].dateStart, endOfDay(toDate))}

buildRangeQuery(st, fromDate, toDate) ==
  {id \in DOMAIN st :
     /\ st[id].deletedAt = NullValue
     /\ InstantLE(startOfDay(fromDate), st[id].dateStart)
     /\ InstantLE(st[id].dateStart, endOfDay(toDate))}

\* orderBy("dateStart", "asc"); documents of one day come in the order of ids
RECURSIVE OrderByDateStart(_, _)
OrderByDateStart(st, ids) ==
  IF ids = {} THEN <<>>
  ELSE LET first == CHOOSE a \in ids :
                      \A b \in ids :
                        \/ st[a].dateStart.t < st[b].dateStart.t
                        \/ st[a].dateStart.t = st[b].dateStart.t /\ Len(a) < Len(b)
                        \/ st[a].dateStart.t = st[b].dateStart.t /\ Len(a) = Len(b)
                             /\ ParseInt(Tail(a)).v <= ParseInt(Tail(b)).v
       IN  <<mapEventDoc(first, st[first])>> \o OrderByDateStart(st, ids \ {first})

\* snap.docs.map(mapEventDoc) of the listener's query
SnapshotOf(st, listener) ==
  OrderByDateStart(st, buildRangeQuery(st, listener.from, listener.to))

\* safeUnsub without the call of unsubMonth: the listener stays with the store
safeUnsubDroppingHandle(att) == att

\* safeUnsub: unsubMonth?.() detaches the listener unsubMonth stands for, the
\* one attached last; unsubMonth = null is the caller's
safeUnsub(att) ==
  IF unsubMonth = <<>> THEN att ELSE SubSeq(att, 1, Len(att) - 1)

\* the listeners of the store after subscribeMonth: safeUnsub, then onSnapshot
\* on the query of the month's range
AttachMonth(att, year, monthIndex) ==
  Append(safeUnsub(att), monthRange(year, monthIndex))

\* subscribeMonth: safeUnsub, then a new listener on the month's range
subscribeMonth(year, monthIndex) ==
  <<[from |-> monthRange(year, monthIndex).from, to |-> monthRange(year, monthIndex).to,
     delivered |-> FALSE]>>

\* a rerender that draws the events it is given without expanding again
rerenderAsIs(ui) == ui

\* rerender: UI_STATE.events is expanded again for the month shown
rerender(ui) ==
  [ui EXCEPT !.events = expandRecurringForVisibleRange(ui.rawEvents, ui.year, ui.monthIndex)]

setMonth(ui, year, monthIndex) == rerender([ui EXCEPT !.year = year, !.monthIndex = monthIndex])

\* setEvents: rawEvents, then events for the month shown, then rerender
setEvents(ui, events) ==
  rerender([ui EXCEPT !.rawEvents = events,
                      !.events = expandRecurringForVisibleRange(events, ui.year,
                                                                ui.monthIndex)])

\* setView(view), not silent
setView(ui, view) ==
  rerender([ui EXCEPT !.view = IF view = "list" THEN "list" ELSE "month"])

\* a collection that tells its listeners nothing about a write
AfterWriteSilent(st) == unsubMonth

\* a write reached the collection: the listener is due a snapshot when the
\* result of its query changed
AfterWrite(st) ==
  IF unsubMonth = <<>> THEN unsubMonth
  ELSE IF SnapshotOf(st, unsubMonth[1]) = SnapshotOf(store, unsubMonth[1]) THEN unsubMonth
  ELSE <<[unsubMonth[1] EXCEPT !.delivered = FALSE]>>

AppInitAt(today) ==
  /\ now = today
  /\ session = NoSession
  /\ unsubMonth = <<>>
  /\ attached = <<>>
  /\ UI_STATE = [year |-> getFullYear(today), monthIndex |-> getMonth(today),
                 rawEvents |-> <<>>, events |-> <<>>,
                 filterCategory |-> <<>>, filterStatus |-> <<>>,
                 filterAssignedTo |-> <<>>, searchQuery |-> <<>>, view |-> "month"]

AppIdle == AppInitAt(NewDate(2026, 0, 15))

AppInit == \E today \in {NewDate(2026, 0, 15), NewDate(2026, 1, 10)} : AppInitAt(today)

\* requireEmail without its test
requireEmailAlways(s) == TRUE

\* requireEmail: TRUE when it returns, FALSE when it throws
requireEmail(s) == s.USER_EMAIL # <<>>

\* the message of the error requireEmail throws, which the handlers alert
NoSessionMessage == "No hay sesión activa."

\* the auth:changed listener of app.js
AuthChanged(user, allowed) ==
  /\ IF user = <<>> \/ ~allowed
     THEN /\ session' = [session EXCEPT !.CURRENT_USER = <<>>, !.USER_EMAIL = <<>>]
          /\ unsubMonth' = <<>>
          /\ attached' = safeUnsub(attached)
          /\ UNCHANGED UI_STATE
     ELSE /\ session' = [CURRENT_USER |-> user,
                         USER_EMAIL |-> Trim(ToLowerCase(user[1].email)),
                         uiInitialized |-> TRUE]
          /\ UI_STATE' = setMonth(UI_STATE, UI_STATE.year, UI_STATE.monthIndex)
          /\ unsubMonth' = subscribeMonth(UI_STATE.year, UI_STATE.monthIndex)
          /\ attached' = AttachMonth(attached, UI_STATE.year, UI_STATE.monthIndex)
  /\ UNCHANGED <<now, store, run, faults, prev, calls, expandVars, fingerprintVars,
               modalVars, rangeVars>>

\* the onSnapshot callback of subscribeMonth: setEvents(events).  The store
\* calls it for a listener it holds: the one unsubMonth stands for when its
\* result is due, any other one at any time
DeliverSnapshot ==
  /\ \E i \in 1..Len(attached) :
       IF i = Len(attached) /\ unsubMonth # <<>>
       THEN /\ ~unsubMonth[1].delivered
            /\ UI_STATE' = setEvents(UI_STATE, SnapshotOf(store, unsubMonth[1]))
            /\ unsubMonth' = <<[unsubMonth[1] EXCEPT !.delivered = TRUE]>>
       ELSE /\ UI_STATE' = setEvents(UI_STATE, SnapshotOf(store, attached[i]))
            /\ UNCHANGED unsubMonth
  /\ UNCHANGED <<now, session, attached, store, run, faults, prev, calls, expandVars, fingerprintVars,
               modalVars, rangeVars>>

\* shiftMonth(delta) of ui.js with handleNavigate of app.js as onNavigate
shiftMonth(delta) ==
  /\ session.uiInitialized
  /\ LET d == NewDate(UI_STATE.year, UI_STATE.monthIndex + delta, 1)
     IN  /\ MonthNo(d) - MonthNo(now) \in (0 - MaxShift)..MaxShift
         /\ unsubMonth' = subscribeMonth(getFullYear(d), getMonth(d))
         /\ attached' = AttachMonth(attached, getFullYear(d), getMonth(d))
         /\ UI_STATE' = setMonth(UI_STATE, getFullYear(d), getMonth(d))
  /\ UNCHANGED <<now, session, store, run, faults, prev, calls, expandVars, fingerprintVars,
               modalVars, rangeVars>>

\* goToday of ui.js with handleNavigate of app.js as onNavigate
goToday ==
  /\ session.uiInitialized
  /\ unsubMonth' = subscribeMonth(getFullYear(now), getMonth(now))
  /\ attached' = AttachMonth(attached, getFullYear(now), getMonth(now))
  /\ UI_STATE' = setMonth(UI_STATE, getFullYear(now), getMonth(now))
  /\ UNCHANGED <<now, session, store, run, faults, prev, calls, expandVars, fingerprintVars,
               modalVars, rangeVars>>

\* the input handler of the search box: the trimmed text, then rerender
TypeSearch(text) ==
  /\ session.uiInitialized
  /\ UI_STATE' = rerender([UI_STATE EXCEPT !.searchQuery = Trim(text)])
  /\ UNCHANGED <<now, session, unsubMonth, attached, dbVars, expandVars, fingerprintVars,
                 modalVars, rangeVars>>

\* the change handler of one of the three filter selects
ChangeFilter(field, value) ==
  /\ session.uiInitialized
  /\ field \in {"filterCategory", "filterStatus", "filterAssignedTo"}
  /\ UI_STATE' = rerender([UI_STATE EXCEPT ![field] = value])
  /\ UNCHANGED <<now, session, unsubMonth, attached, dbVars, expandVars, fingerprintVars,
                 modalVars, rangeVars>>

\* the month / list buttons
ClickView(view) ==
  /\ session.uiInitialized
  /\ UI_STATE' = setView(UI_STATE, view)
  /\ UNCHANGED <<now, session, unsubMonth, attached, dbVars, expandVars, fingerprintVars,
                 modalVars, rangeVars>>

\* handleCreate: requireEmail, then createEvent(payload, USER_EMAIL)
handleCreate(payload) ==
  /\ session.uiInitialized
  /\ Cardinality(DOMAIN store) < MaxEvents
  /\ LET n  == normalizeEventInputStrict(payload)
         id == DocId(Cardinality(DOMAIN store) + 1)
         st == With(store, id, CreatePayload(n.v, payload, session.USER_EMAIL))
     IN  IF ~requireEmail(session) \/ ~n.ok
         THEN UNCHANGED <<store, unsubMonth>>
         ELSE store' = st /\ unsubMonth' = AfterWrite(st)
  /\ UNCHANGED <<now, session, UI_STATE, attached, run, faults, prev, calls, expandVars,
               fingerprintVars, modalVars, rangeVars>>

\* handleDelete: requireEmail, confirm, then softDeleteEvent(id, USER_EMAIL)
handleDelete(id, ok) ==
  /\ session.uiInitialized
  /\ id \in DOMAIN store
  /\ LET st == [store EXCEPT ![id] = Spread(@, [deletedAt |-> ServerTimestamp,
                                                updatedAt |-> ServerTimestamp,
                                                updatedBy |-> session.USER_EMAIL])]
     IN  IF ~requireEmail(session) \/ ~ok
         THEN UNCHANGED <<store, unsubMonth>>
         ELSE store' = st /\ unsubMonth' = AfterWrite(st)
  /\ UNCHANGED <<now, session, UI_STATE, attached, run, faults, prev, calls, expandVars,
               fingerprintVars, modalVars, rangeVars>>

(***************************************************************************)
(* Claim about the recurring events the application shows (SpecApp)        *)
(***************************************************************************)
ViewedMonthNo == UI_STATE.year * 12 + UI_STATE.monthIndex

\* the snapshot of the month shown has been handed to the UI
ViewedMonthDelivered ==
  /\ session.USER_EMAIL # <<>>
  /\ unsubMonth # <<>>
  /\ unsubMonth[1].delivered
  /\ unsubMonth[1].from = startOfMonth(UI_STATE.year, UI_STATE.monthIndex)

\* the days of the visible grid on which an event anchored on anchor recurs
ProjectedDays(anchor, rec) ==
  LET grid == buildMonthGrid(UI_STATE.year, UI_STATE.monthIndex, weekStartsOn)
      days == grid[1].t..grid[GridCells].t
  IN  IF rec = StrWeekly
      THEN {t \in days : t > anchor.t /\ (t - anchor.t) % 7 = 0}
      ELSE {t \in days :
              LET d == [valid |-> TRUE, t |-> t]
              IN  /\ MonthNo(d) > MonthNo(anchor)
                  /\ getDate(d) = MinOf(getDate(anchor), LastDayOf(MonthNo(d)))}

ShownVirtual(id, t) ==
  \E i \in 1..Len(UI_STATE.events) :
    /\ IsVirtual(UI_STATE.events[i])
    /\ UI_STATE.events[i]["_virtualFromId"] = id
    /\ UI_STATE.events[i].dateISO = toISODateLocal([valid |-> TRUE, t |-> t])

\* C4: once the snapshot of the month shown has been delivered, every live
\* weekly or monthly event anchored in an earlier month is shown with a virtual
\* occurrence on each of its recurrence dates inside the visible grid.
C4_EarlierAnchorsProjected ==
  ViewedMonthDelivered =>
    \A id \in DOMAIN store :
      LET doc == store[id]
      IN  (/\ doc.deletedAt = NullValue
           /\ doc.recurrence \in {StrWeekly, StrMonthly}
           /\ MonthNo(doc.dateStart) < ViewedMonthNo) =>
            \A t \in ProjectedDays(doc.dateStart, doc.recurrence) : ShownVirtual(id, t)

(***************************************************************************)
(* Claims about the session and the month subscription (SpecApp)           *)
(***************************************************************************)
RangeOf(listener) == [from |-> listener.from, to |-> listener.to]

\* the store holds the listener unsubMonth stands for and no other
OnlyHandleAttached ==
  IF unsubMonth = <<>> THEN attached = <<>>
  ELSE attached = <<RangeOf(unsubMonth[1])>>

\* C21: a navigation or a repeated authorized auth change detaches the
\* listener of the previous range before it attaches the new one: the store
\* never holds more than one listener, the one unsubMonth stands for, and
\* whenever the raw events of the UI change they become the result of the
\* query of that listener, never of a range subscribed earlier.
C21_OneSubscriptionNoStaleSnapshot ==
  [][/\ Len(attached') <= 1
     /\ OnlyHandleAttached'
     /\ UI_STATE'.rawEvents # UI_STATE.rawEvents =>
          /\ unsubMonth # <<>>
          /\ UI_STATE'.rawEvents = SnapshotOf(store, unsubMonth[1])]_vars

\* the month of today had a live event, the user went to another month, and
\* the snapshot of that month's listener emptied the display
C21_Witness ==
  /\ unsubMonth # <<>>
  /\ unsubMonth[1].delivered
  /\ unsubMonth[1].from # startOfMonth(getFullYear(now), getMonth(now))
  /\ attached = <<RangeOf(unsubMonth[1])>>
  /\ UI_STATE.rawEvents = <<>>
  /\ buildRangeQuery(store, startOfMonth(getFullYear(now), getMonth(now)),
                     endOfMonth(getFullYear(now), getMonth(now))) # {}

\* C28: whatever auth changes and month navigations have happened, while no
\* authorized user is signed in (USER_EMAIL is empty) there is no range
\* subscription: unsubMonth is null and the store holds no listener.
C28_NoSubscriptionWithoutUser ==
  session.USER_EMAIL = <<>> => (unsubMonth = <<>> /\ attached = <<>>)

\* C27: after every handler of the UI has run (setEvents, setMonth,
\* navigation, go to today, filter, search and view changes), the displayed
\* events are the expansion of the raw events for the month shown.
C27_EventsAreExpansion ==
  UI_STATE.events =
    expandRecurringForVisibleRange(UI_STATE.rawEvents, UI_STATE.year, UI_STATE.monthIndex)

\* the snapshot of January, with a weekly event, is shown for February under a
\* filter: the virtual occurrences are those of the grid of February
C27_Witness ==
  /\ UI_STATE.rawEvents # <<>>
  /\ Len(UI_STATE.events) > Len(UI_STATE.rawEvents)
  /\ UI_STATE.monthIndex # getMonth(now)
  /\ UI_STATE.filterStatus # <<>>
  /\ UI_STATE.view = "list"

(***************************************************************************)
(* The event modal (js/ui.js) over the handlers of js/app.js               *)
(*                                                                         *)
(* modal is the modal of ui.js: whether it is shown, UI_STATE.editingId    *)
(* (<<>> for null), the values of the seven form fields, and what opened   *)
(* it.  lastCall is <<>> or the call of the data layer a handler issued    *)
(* last: its name, the id and the payload it was given, and what had opened *)
(* the modal it came from.  A handler of app.js is taken with the          *)
(* data-layer call it awaits.                                              *)
(***************************************************************************)
BaseCategory == <<"a", "d", "m", "i", "n">>
CopySuffix == <<" ", "(", "c", "o", "p", "i", "a", ")">>

EmptyForm ==
  [title |-> <<>>, category |-> <<>>, dateISO |-> <<>>, status |-> <<>>,
   notes |-> <<>>, assignedTo |-> <<>>, recurrence |-> <<>>]

ClosedModal == [open |-> FALSE, editingId |-> <<>>, form |-> EmptyForm, via |-> "none"]

ModalIdle == modal = ClosedModal /\ lastCall = <<>>

\* x || fallback for a string
OrElse(s, fallback) == IF s = <<>> THEN fallback ELSE s

getSmartDefaultDateISO ==
  IF UI_STATE.year = getFullYear(now) /\ UI_STATE.monthIndex = getMonth(now)
  THEN toISODateLocal(now)
  ELSE toISODateLocal(NewDate(UI_STATE.year, UI_STATE.monthIndex, 1))

\* prefill is <<>> or <<ev>>
openModalForNew(dateISO, prefill) ==
  [open |-> TRUE,
   editingId |-> <<>>,
   form |-> [title      |-> IF prefill = <<>> THEN <<>> ELSE FieldOrEmpty(prefill[1], "title"),
             category   |-> IF prefill = <<>> THEN BaseCategory
                            ELSE OrElse(FieldOrEmpty(prefill[1], "category"), BaseCategory),
             dateISO    |-> OrElse(Trim(dateISO), getSmartDefaultDateISO),
             status     |-> IF prefill = <<>> THEN StrPending
                            ELSE OrElse(FieldOrEmpty(prefill[1], "status"), StrPending),
             notes      |-> IF prefill = <<>> THEN <<>> ELSE FieldOrEmpty(prefill[1], "notes"),
             assignedTo |-> IF prefill = <<>> THEN <<>>
                            ELSE FieldOrEmpty(prefill[1], "assignedTo"),
             recurrence |-> <<>>],
   via |-> IF prefill = <<>> THEN "new" ELSE "virtual"]

openModalForEdit(ev) ==
  [open |-> TRUE,
   editingId |-> <<ev.id>>,
   form |-> [title      |-> FieldOrEmpty(ev, "title"),
             category   |-> OrElse(FieldOrEmpty(ev, "category"), BaseCategory),
             dateISO    |-> FieldOrEmpty(ev, "dateISO"),
             status     |-> OrElse(FieldOrEmpty(ev, "status"), StrPending),
             notes      |-> FieldOrEmpty(ev, "notes"),
             assignedTo |-> FieldOrEmpty(ev, "assignedTo"),
             recurrence |-> FieldOrEmpty(ev, "recurrence")],
   via |-> IF IsVirtual(ev) THEN "virtual" ELSE "persisted"]

closeModal == ClosedModal

\* readModalPayload: <<>> for null, else <<payload>>
readModalPayload(form) ==
  LET title      == Trim(form.title)
      category   == Trim(form.category)
      dateISO    == Trim(form.dateISO)
      recurrence == Trim(form.recurrence)
  IN  IF \/ title = <<>> \/ category = <<>> \/ dateISO = <<>>
         \/ ~IsStrictISOShape(dateISO)
         \/ (recurrence # <<>> /\ recurrence \notin {StrWeekly, StrMonthly})
      THEN <<>>
      ELSE <<[title |-> title, category |-> category, dateISO |-> dateISO,
              status |-> Trim(OrElse(form.status, StrPending)),
              notes |-> Trim(form.notes), assignedTo |-> Trim(form.assignedTo),
              recurrence |-> recurrence]>>

OpenEventForEdit(ev) == openModalForEdit(ev)

\* the click handlers of the calendar, the list and the overview cards: the
\* entry of UI_STATE.events found for the id of the chip or row
OpenEvent(ev) ==
  IF IsVirtual(ev) /\ ev["_virtualFromId"] # <<>>
  THEN openModalForNew(FieldOrEmpty(ev, "dateISO"), <<ev>>)
  ELSE openModalForEdit(ev)

\* UI_STATE.events.find(x => x.id === id)
FindEvent(id) ==
  UI_STATE.events[CHOOSE i \in 1..Len(UI_STATE.events) :
                    /\ UI_STATE.events[i].id = id
                    /\ \A j \in 1..(i - 1) : UI_STATE.events[j].id # id]

\* createEvent as one step: the store after it
createEventNow(st, payload, email) ==
  LET n == normalizeEventInputStrict(payload)
  IN  IF ~n.ok THEN st
      ELSE With(st, DocId(Cardinality(DOMAIN st) + 1), CreatePayload(n.v, payload, email))

ApplyUpdate(st, id, n, email) ==
  IF ~n.ok THEN st
  ELSE IF ~Changed(mapEventDoc(id, st[id]), UpdatePatch(n.v, email)) THEN st
  ELSE [st EXCEPT ![id] = Spread(@, UpdatePatch(n.v, email))]

\* updateEvent as one step: the store after it
updateEventNow(st, id, payload, email) ==
  IF Trim(id) = <<>> \/ Trim(id) \notin DOMAIN st THEN st
  ELSE ApplyUpdate(st, Trim(id),
                   normalizeEventInputTolerant(payload, mapEventDoc(Trim(id), st[Trim(id)])),
                   email)

\* softDeleteEvent as one step: updateDoc fails on a document that is not there
softDeleteEventNow(st, id, email) ==
  IF Trim(id) = <<>> \/ Trim(id) \notin DOMAIN st THEN st
  ELSE [st EXCEPT ![Trim(id)] = Spread(@, [deletedAt |-> ServerTimestamp,
                                           updatedAt |-> ServerTimestamp,
                                           updatedBy |-> email])]

\* a handler of app.js returned before its call of the data layer
NoIssue == UNCHANGED <<lastCall, store, unsubMonth, calls>>

\* requireEmail threw in a handler of app.js: the catch alerts the message
Refuse(call) ==
  /\ lastCall' = <<[op |-> "alert", message |-> NoSessionMessage, refused |-> call.op,
                    from |-> call.from]>>
  /\ UNCHANGED <<store, unsubMonth, calls>>

\* a handler of app.js ran: requireEmail, then the call, then the listener
Issue(call, st) ==
  IF ~requireEmail(session) THEN Refuse(call)
  ELSE /\ calls < MaxCalls
       /\ calls' = calls + 1
       /\ lastCall' = <<call>>
       /\ store' = st
       /\ unsubMonth' = AfterWrite(st)

\* click on a chip of the calendar grid
ClickCalendarChip(i) ==
  /\ session.uiInitialized
  /\ i \in 1..Len(UI_STATE.events)
  /\ modal' = OpenEvent(FindEvent(UI_STATE.events[i].id))
  /\ UNCHANGED <<lastCall, appVars, dbVars, expandVars, fingerprintVars, rangeVars>>

\* click on a day cell or its "+n" button
ClickDayCell(dateISO) ==
  /\ session.uiInitialized
  /\ modal' = openModalForNew(dateISO, <<>>)
  /\ UNCHANGED <<lastCall, appVars, dbVars, expandVars, fingerprintVars, rangeVars>>

\* click on a row of the list view
ClickListRow(i) ==
  /\ session.uiInitialized
  /\ i \in 1..Len(UI_STATE.events)
  /\ modal' = OpenEvent(FindEvent(UI_STATE.events[i].id))
  /\ UNCHANGED <<lastCall, appVars, dbVars, expandVars, fingerprintVars, rangeVars>>

\* click on a row of the overview cards (today, next)
ClickOverviewRow(i) ==
  /\ session.uiInitialized
  /\ i \in 1..Len(UI_STATE.events)
  /\ modal' = OpenEvent(FindEvent(UI_STATE.events[i].id))
  /\ UNCHANGED <<lastCall, appVars, dbVars, expandVars, fingerprintVars, rangeVars>>

\* the "new event" button
ClickNewEvent ==
  /\ session.uiInitialized
  /\ modal' = openModalForNew(getSmartDefaultDateISO, <<>>)
  /\ UNCHANGED <<lastCall, appVars, dbVars, expandVars, fingerprintVars, rangeVars>>

\* the user fills a field of the form
TypeInForm(field, value) ==
  /\ modal.open
  /\ modal' = [modal EXCEPT !.form[field] = value]
  /\ UNCHANGED <<lastCall, appVars, dbVars, expandVars, fingerprintVars, rangeVars>>

\* cancel button, overlay, Escape
ClickCancelModal ==
  /\ modal.open
  /\ modal' = closeModal
  /\ UNCHANGED <<lastCall, appVars, dbVars, expandVars, fingerprintVars, rangeVars>>

\* submit of the form: onUpdate(editingId, payload) or onCreate(payload)
SubmitForm ==
  /\ modal.open
  /\ LET p == readModalPayload(modal.form)
     IN  IF p = <<>> THEN UNCHANGED modal /\ NoIssue
         ELSE /\ modal' = closeModal
              /\ IF modal.editingId # <<>>
                 THEN Issue([op |-> "updateEvent", id |-> modal.editingId[1],
                             payload |-> p[1], from |-> modal.via],
                            updateEventNow(store, modal.editingId[1], p[1],
                                           OrEmpty(session.USER_EMAIL)))
                 ELSE /\ Cardinality(DOMAIN store) < MaxEvents
                      /\ Issue([op |-> "createEvent", payload |-> p[1], from |-> modal.via],
                               createEventNow(store, p[1], OrEmpty(session.USER_EMAIL)))
  /\ UNCHANGED <<now, session, UI_STATE, attached, run, faults, prev, expandVars,
                 fingerprintVars, rangeVars>>

\* the "Duplicar" button
ClickDuplicate ==
  /\ modal.open
  /\ Cardinality(DOMAIN store) < MaxEvents
  /\ LET p == readModalPayload(modal.form)
     IN  IF p = <<>> THEN UNCHANGED modal /\ NoIssue
         ELSE /\ modal' = closeModal
              /\ Issue([op |-> "createEvent",
                        payload |-> [p[1] EXCEPT !.title = @ \o CopySuffix],
                        from |-> modal.via],
                       createEventNow(store, [p[1] EXCEPT !.title = @ \o CopySuffix],
                                      OrEmpty(session.USER_EMAIL)))
  /\ UNCHANGED <<now, session, UI_STATE, attached, run, faults, prev, expandVars,
                 fingerprintVars, rangeVars>>

\* the delete button of the modal: onDelete(editingId), handleDelete confirms
ClickDeleteEvent(ok) ==
  /\ modal.open
  /\ IF modal.editingId = <<>> THEN UNCHANGED modal /\ NoIssue
     ELSE /\ modal' = closeModal
          /\ IF requireEmail(session) /\ ~ok THEN NoIssue
             ELSE Issue([op |-> "softDeleteEvent", id |-> modal.editingId[1],
                              from |-> modal.via],
                        softDeleteEventNow(store, modal.editingId[1],
                                           OrEmpty(session.USER_EMAIL)))
  /\ UNCHANGED <<now, session, UI_STATE, attached, run, faults, prev, expandVars,
                 fingerprintVars, rangeVars>>

(***************************************************************************)
(* Claim about the modal (SpecModal)                                       *)
(***************************************************************************)
\* the id has the shape of the id of a virtual occurrence
HasVirtualMark(id) ==
  \E i \in 1..Len(id) : i + 4 <= Len(id) /\ SubSeq(id, i, i + 4) = VirtualMark

\* C11: no updateEvent or softDeleteEvent call is issued with the id of a
\* virtual occurrence, no payload handed to createEvent or updateEvent carries
\* an id or _virtualFromId, and a modal opened from a virtual occurrence is in
\* create mode (editingId is null).
C11_VirtualNeverWritten ==
  /\ \A i \in 1..Len(lastCall) :
       /\ lastCall[i].op \in {"updateEvent", "softDeleteEvent"} =>
            ~HasVirtualMark(lastCall[i].id) /\ lastCall[i].id \in DOMAIN store
       /\ lastCall[i].op \in {"createEvent", "updateEvent"} =>
            /\ "_virtualFromId" \notin DOMAIN lastCall[i].payload
            /\ "id" \notin DOMAIN lastCall[i].payload
  /\ modal.via = "virtual" => modal.editingId = <<>>
  /\ \A i \in 1..Len(modal.editingId) : ~HasVirtualMark(modal.editingId[i])

\* a virtual occurrence was clicked and its form submitted: createEvent
C11_Witness ==
  /\ lastCall # <<>>
  /\ lastCall[1].op = "createEvent"
  /\ lastCall[1].from = "virtual"
  /\ \E id \in DOMAIN store : store[id].title = lastCall[1].payload.title
                                /\ store[id].recurrence = <<>>

\* C22: while no authorized user is signed in, a handler of app.js
\* (handleCreate, handleUpdate, handleDelete) issues no call of the data layer
\* and writes nothing: the only thing it does is alert the 'no active session'
\* error requireEmail threw.
C22_NoWriteWithoutSession ==
  [][session.CURRENT_USER = <<>> =>
       /\ calls' = calls
       /\ store' = store
       /\ lastCall' # lastCall =>
            /\ lastCall'[1].op = "alert"
            /\ lastCall'[1].message = NoSessionMessage]_vars

\* the user was signed out with the form of an existing event open, submitted
\* it, and the update was refused
C22_Witness ==
  /\ session.CURRENT_USER = <<>>
  /\ session.uiInitialized
  /\ DOMAIN store # {}
  /\ lastCall # <<>>
  /\ lastCall[1].op = "alert"
  /\ lastCall[1].refused = "updateEvent"

(***************************************************************************)
(* Calls of expandRecurringForVisibleRange (js/ui.js)                      *)
(*                                                                         *)
(* rin is the arguments of the calls: the list of events and the month     *)
(* shown.  rout is the list of the results of the calls made so far.       *)
(***************************************************************************)
RangeIdle ==
  /\ rin = [rawEvents |-> <<>>, year |-> 2026, monthIndex |-> 0]
  /\ rout = <<>>
  /\ rpc = "idle"

MaxRangeEvents == 2
MaxRangeCalls == 2

Date0105Unpadded == <<"2", "0", "2", "6", "-", "1", "-", "5">>
StrDaily == <<"d", "a", "i", "l", "y">>

\* the events handed in: persisted events, also ones no write of this
\* application produces (no date, an unpadded date, an unknown or padded
\* recurrence)
RangeEvents ==
  {[id |-> <<"e", n>>, title |-> <<"t", n>>, recurrence |-> StrWeekly] : n \in {"1", "2"}}
  \cup
  {[id |-> <<"e", n>>, title |-> <<"t", n>>, dateISO |-> dr[1], recurrence |-> dr[2]] :
     n \in {"1", "2"},
     dr \in ({Date0105} \X {<<>>, StrWeekly, StrMonthly, StrDaily, <<" ">> \o StrWeekly})
             \cup {<<Date0131, StrMonthly>>, <<Date0105Unpadded, StrWeekly>>,
                    <<<<>>, StrMonthly>>}}

RangeMonths == {<<2025, 11>>, <<2026, 0>>, <<2026, 1>>, <<2026, 2>>}

RangeInit ==
  /\ \E events \in SeqsUpTo(RangeEvents, MaxRangeEvents), ym \in RangeMonths :
       rin = [rawEvents |-> events, year |-> ym[1], monthIndex |-> ym[2]]
  /\ rout = <<>>
  /\ rpc = "idle"

\* rerender calls expandRecurringForVisibleRange on the events it holds; the
\* function assigns to no argument and to no field of an event
CallExpandRange ==
  /\ Len(rout) < MaxRangeCalls
  /\ rout' = Append(rout, expandRecurringForVisibleRange(rin.rawEvents, rin.year,
                                                         rin.monthIndex))
  /\ rpc' = "done"
  /\ rin' = rin
  /\ UNCHANGED <<expandVars, fingerprintVars, dbVars, appVars, modalVars>>

(***************************************************************************)
(* Claims about expandRecurringForVisibleRange (SpecRange)                 *)
(***************************************************************************)
DistinctIds(events) ==
  \A i, j \in 1..Len(events) : i # j => events[i].id # events[j].id

\* v is a copy of ev that differs in id, dateISO and _virtualFromId only
IsOccurrenceOf(v, ev) ==
  /\ v["_virtualFromId"] = ev.id
  /\ DOMAIN v = (DOMAIN ev) \cup {"dateISO", "_virtualFromId"}
  /\ \A k \in (DOMAIN ev) \ {"id", "dateISO"} : v[k] = ev[k]

\* the list before the final pass over the keys
RangeGenerated ==
  ExpandAll(rin.rawEvents,
            toISODateLocal(buildMonthGrid(rin.year, rin.monthIndex, weekStartsOn)[1]),
            toISODateLocal(buildMonthGrid(rin.year, rin.monthIndex, weekStartsOn)[GridCells]))

PairOf(e) == <<e.id, FieldOrEmpty(e, "dateISO")>>

\* the positions of a list that hold the first entry of their (id, dateISO)
FirstPositions(list) ==
  {i \in 1..Len(list) : \A j \in 1..(i - 1) : PairOf(list[j]) # PairOf(list[i])}

\* the entries of a result that belong to an input event: itself, its occurrences
EntriesOf(out, ev) ==
  {i \in 1..Len(out) :
     \/ out[i].id = ev.id
     \/ IsVirtual(out[i]) /\ out[i]["_virtualFromId"] = ev.id}

\* C12: for events with pairwise distinct ids the result holds every input
\* event itself, unmodified and in the order of the input, and every other
\* entry is a virtual occurrence that names an input event in _virtualFromId
\* and equals it in every field but id, dateISO and _virtualFromId.
C12_InputsKeptVirtualsCopied ==
  \A c \in 1..Len(rout) :
    DistinctIds(rin.rawEvents) =>
      /\ SelectSeq(rout[c], LAMBDA e : ~IsVirtual(e)) = rin.rawEvents
      /\ \A i \in 1..Len(rout[c]) :
           IsVirtual(rout[c][i]) =>
             \E j \in 1..Len(rin.rawEvents) : IsOccurrenceOf(rout[c][i], rin.rawEvents[j])

\* two events with distinct ids were expanded and both recur in the grid
C12_Witness ==
  /\ rout # <<>>
  /\ Len(rin.rawEvents) = 2
  /\ DistinctIds(rin.rawEvents)
  /\ \A j \in 1..2 :
       \E i \in 1..Len(rout[1]) :
         IsVirtual(rout[1][i]) /\ rout[1][i]["_virtualFromId"] = rin.rawEvents[j].id

\* C13: a result never holds two entries with the same (id, dateISO), and the
\* entry kept for a pair is the first one generated.
C13_NoDuplicateKeepsFirst ==
  \A c \in 1..Len(rout) :
    /\ \A i, j \in 1..Len(rout[c]) : i # j => PairOf(rout[c][i]) # PairOf(rout[c][j])
    /\ Len(rout[c]) = Cardinality(FirstPositions(RangeGenerated))
    /\ \A i \in FirstPositions(RangeGenerated) :
         rout[c][Cardinality({j \in FirstPositions(RangeGenerated) : j <= i})]
           = RangeGenerated[i]

\* an entry was generated twice and the second one dropped
C13_Witness ==
  /\ rout # <<>>
  /\ Len(rout[1]) < Len(RangeGenerated)
  /\ \E i \in 1..Len(rout[1]) : IsVirtual(rout[1][i])

\* C14 (as stated): an event with an empty or missing dateISO, or with a
\* recurrence that is empty or any value other than "weekly" and "monthly",
\* contributes exactly one entry, itself, and no virtual occurrence.
C14_PlainEventsOnce ==
  \A c \in 1..Len(rout) :
    DistinctIds(rin.rawEvents) =>
      \A j \in 1..Len(rin.rawEvents) :
        (\/ FieldOrEmpty(rin.rawEvents[j], "dateISO") = <<>>
         \/ FieldOrEmpty(rin.rawEvents[j], "recurrence") \notin {StrWeekly, StrMonthly}) =>
          /\ Cardinality(EntriesOf(rout[c], rin.rawEvents[j])) = 1
          /\ \E i \in EntriesOf(rout[c], rin.rawEvents[j]) : rout[c][i] = rin.rawEvents[j]

\* C14 (amended): an event whose dateISO is empty or missing, or whose
\* recurrence with surrounding whitespace removed is empty or any value other
\* than "weekly" and "monthly", contributes exactly one entry, itself, and no
\* virtual occurrence.
C14_PlainAfterTrimOnce ==
  \A c \in 1..Len(rout) :
    DistinctIds(rin.rawEvents) =>
      \A j \in 1..Len(rin.rawEvents) :
        (\/ Trim(FieldOrEmpty(rin.rawEvents[j], "dateISO")) = <<>>
         \/ Trim(FieldOrEmpty(rin.rawEvents[j], "recurrence")) \notin {StrWeekly, StrMonthly}) =>
          /\ Cardinality(EntriesOf(rout[c], rin.rawEvents[j])) = 1
          /\ \E i \in EntriesOf(rout[c], rin.rawEvents[j]) : rout[c][i] = rin.rawEvents[j]

\* an event with a date and an unknown recurrence was expanded next to a
\* weekly one
C14_Witness ==
  /\ rout # <<>>
  /\ Len(rin.rawEvents) = 2
  /\ DistinctIds(rin.rawEvents)
  /\ FieldOrEmpty(rin.rawEvents[1], "recurrence") = StrDaily
  /\ FieldOrEmpty(rin.rawEvents[1], "dateISO") = Date0105
  /\ Len(rout[1]) > 2

SoftDeletePatchClearing(email) ==
  [deletedAt |-> NullValue, updatedAt |-> ServerTimestamp, updatedBy |-> Trim(email)]

\* the patch softDeleteEvent hands to updateDoc
SoftDeletePatch(email) ==
  [deletedAt |-> ServerTimestamp, updatedAt |-> ServerTimestamp, updatedBy |-> Trim(email)]

\* a restore that also sets the event back to pending
RestorePatchPending(email) ==
  [deletedAt |-> NullValue, updatedAt |-> ServerTimestamp, updatedBy |-> Trim(email),
   status |-> StrPending]

\* what is remembered of the call that ended before the one that starts
EndedCall(L) ==
  [items |-> <<>>, results |-> <<>>, kind |-> L.kind, ret |-> L.ret, out |-> L.out,
   log |-> L.log]

\* the patch restoreEvent hands to updateDoc
RestorePatch(email) ==
  [deletedAt |-> NullValue, updatedAt |-> ServerTimestamp, updatedBy |-> Trim(email)]

\* createEvent(input, userEmail) up to its await addDoc
StartCreateEvent(r, input) ==
  /\ run[r].pc \in {"idle", "done"}
  /\ calls < MaxCalls
  /\ calls' = calls + 1
  /\ run' = [run EXCEPT ![r] =
               BeginCreate(With([IdleRun EXCEPT !.kind = "createEvent"], "input", input),
                           store, input)]
  /\ prev' = NoPrev
  /\ UNCHANGED <<store, faults, expandVars, fingerprintVars, appVars, modalVars, rangeVars>>

\* softDeleteEvent / restoreEvent up to their await updateDoc
BeginPatch(L, st, eventId, patch) ==
  IF Trim(eventId) = <<>> THEN Finish(L, st, "errors", NoWrite, <<>>)
  ELSE [L EXCEPT !.pc = "update", !.pend = [id |-> Trim(eventId), patch |-> patch]]

StartSoftDeleteEvent(r, eventId) ==
  /\ run[r].pc \in {"idle", "done"}
  /\ calls < MaxCalls
  /\ calls' = calls + 1
  /\ run' = [run EXCEPT ![r] =
               BeginPatch(With(With([IdleRun EXCEPT !.kind = "softDeleteEvent"], "input", <<>>),
                               "eventId", eventId),
                          store, eventId, SoftDeletePatch(UserEmail))]
  /\ prev' = NoPrev
  /\ UNCHANGED <<store, faults, expandVars, fingerprintVars, appVars, modalVars, rangeVars>>

StartRestoreEvent(r, eventId) ==
  /\ run[r].pc \in {"idle", "done"}
  /\ calls < MaxCalls
  /\ calls' = calls + 1
  /\ run' = [run EXCEPT ![r] =
               BeginPatch(With(With([IdleRun EXCEPT !.kind = "restoreEvent"], "input", <<>>),
                               "eventId", eventId),
                          store, eventId, RestorePatch(UserEmail))]
  /\ prev' = EndedCall(run[r])
  /\ UNCHANGED <<store, faults, expandVars, fingerprintVars, appVars, modalVars, rangeVars>>

\* updateDoc on a document that does not exist: the request is rejected
NotFoundUpdate(r) ==
  /\ run[r].pc = "update"
  /\ run[r].pend.id \notin DOMAIN store
  /\ run' = [run EXCEPT ![r] = RunItems(Finish(run[r], store, "errors", NoWrite, <<>>), store)]
  /\ UNCHANGED <<store, faults, prev, calls, expandVars, fingerprintVars, appVars, modalVars,
                 rangeVars>>

\* getEventsInRange(fromDate, toDate) up to its await getDocs
StartGetEventsInRange(r, fromDate, toDate) ==
  /\ run[r].pc \in {"idle", "done"}
  /\ calls < MaxCalls
  /\ calls' = calls + 1
  /\ run' = [run EXCEPT ![r] =
               [With([IdleRun EXCEPT !.kind = "getEventsInRange"], "input",
                     [from |-> fromDate, to |-> toDate])
                  EXCEPT !.pc = "query", !.pend = [from |-> fromDate, to |-> toDate]]]
  /\ prev' = NoPrev
  /\ UNCHANGED <<store, faults, expandVars, fingerprintVars, appVars, modalVars, rangeVars>>

\* getDocs completes: snaps.docs.map(mapEventDoc)
ResolveQuery(r) ==
  /\ run[r].pc = "query"
  /\ run' = [run EXCEPT ![r] =
               Finish([run[r] EXCEPT !.out = OrderByDateStart(store,
                                               buildRangeQuery(store, run[r].pend.from,
                                                               run[r].pend.to))],
                      store, "ok", NoWrite, <<>>)]
  /\ UNCHANGED <<store, faults, prev, calls, expandVars, fingerprintVars, appVars, modalVars,
                 rangeVars>>

\* getEvent(eventId) up to its await getDoc; prev keeps what the call before
\* it returned
StartGetEvent(r, eventId) ==
  /\ run[r].pc \in {"idle", "done"}
  /\ calls < MaxCalls
  /\ calls' = calls + 1
  /\ run' = [run EXCEPT ![r] =
               IF Trim(eventId) = <<>>
               THEN Finish(With([IdleRun EXCEPT !.kind = "getEvent"], "input", eventId),
                           store, "errors", NoWrite, <<>>)
               ELSE [With([IdleRun EXCEPT !.kind = "getEvent"], "input", eventId)
                       EXCEPT !.pc = "getone", !.pend = [id |-> Trim(eventId)]]]
  /\ prev' = EndedCall(run[r])
  /\ UNCHANGED <<store, faults, expandVars, fingerprintVars, appVars, modalVars, rangeVars>>

\* getDoc completes: null when there is no document, else mapEventDoc(snap)
ResolveGetEvent(r) ==
  /\ run[r].pc = "getone"
  /\ run' = [run EXCEPT ![r] =
               Finish([run[r] EXCEPT !.out = IF run[r].pend.id \in DOMAIN store
                                             THEN <<mapEventDoc(run[r].pend.id,
                                                                store[run[r].pend.id])>>
                                             ELSE <<>>],
                      store, "ok", NoWrite, <<>>)]
  /\ UNCHANGED <<store, faults, prev, calls, expandVars, fingerprintVars, appVars, modalVars,
                 rangeVars>>

HashH == <<"h">>
HashG == <<"g">>
DateUnpadded == <<"2", "0", "2", "6", "-", "1", "-", "5">>
Date0230 == <<"2", "0", "2", "6", "-", "0", "2", "-", "3", "0">>
StrUnknownStatus == <<"x", "x">>
StrUnknownRecurrence == <<"d", "a", "i", "l", "y">>

InputValid ==
  [title |-> <<"b">>, category |-> <<"c">>, dateISO |-> Date0131, status |-> StrDone,
   recurrence |-> StrMonthly]
InputBlankTitle == [title |-> <<" ", " ">>, category |-> <<"c">>, dateISO |-> Date0105]
InputBlankCategory == [title |-> <<"b">>, category |-> <<>>, dateISO |-> Date0105]
InputNoDate == [title |-> <<"b">>, category |-> <<"c">>]
InputUnpaddedDate == [title |-> <<"b">>, category |-> <<"c">>, dateISO |-> DateUnpadded]
InputNoSuchDay == [title |-> <<"b">>, category |-> <<"c">>, dateISO |-> Date0230]
InputOddValues ==
  [title |-> <<"b">>, category |-> <<"c">>, dateISO |-> Date0105,
   status |-> StrUnknownStatus, recurrence |-> StrUnknownRecurrence]
InputOddStatus == [status |-> StrUnknownStatus]

CrudInputs ==
  {InputValid, InputBlankTitle, InputBlankCategory, InputNoDate, InputUnpaddedDate,
   InputNoSuchDay, InputOddValues, InputOddStatus}

CrudBatches ==
  { <<InputNoSuchDay, InputOddValues>>,
    <<With(InputBlankTitle, "sourceHash", HashH), With(InputOddStatus, "sourceHash", HashH)>>,
    <<With(InputValid, "sourceHash", HashG), With(InputValid, "sourceHash", HashG)>>,
    <<With(InputValid, "sourceHash", HashH)>> }

\* the ids handed in: a live event, an event in the bin, no event
CrudIds == {DocId(1), DocId(2), DocId(9)}

\* fromDate and toDate of getEventsInRange: days of January 2026, fromDate
\* also at noon
CrudRanges ==
  { [from |-> NewDate(2026, 0, 1), to |-> NewDate(2026, 0, 31)],
    [from |-> With(NewDate(2026, 0, 5), "ms", 43200000), to |-> NewDate(2026, 0, 30)] }

\* a live imported event and an event in the bin
CrudStore ==
  LET live == [title |-> <<"a">>, category |-> <<"c">>, dateISO |-> Date0105,
               status |-> StrDone, recurrence |-> StrWeekly, sourceHash |-> HashH]
      gone == [title |-> <<"z">>, category |-> <<"c">>, dateISO |-> Date0131]
  IN  [id \in {DocId(1), DocId(2)} |->
         IF id = DocId(1)
         THEN CreatePayload(normalizeEventInputStrict(live).v, live, UserEmail)
         ELSE Spread(CreatePayload(normalizeEventInputStrict(gone).v, gone, UserEmail),
                     SoftDeletePatch(UserEmail))]

CrudInit ==
  /\ store = CrudStore
  /\ run = [r \in Runners |-> IdleRun]
  /\ faults = 0
  /\ prev = NoPrev
  /\ calls = 0

(***************************************************************************)
(* Claims about single calls of the data layer (SpecCrud)                  *)
(***************************************************************************)
\* the call of runner 1 has returned or thrown
CallEnded(kinds) == run[1].kind \in kinds /\ run[1].pc = "done"

\* the event a record is merged over: none for createEvent, the event of the
\* id for updateEvent, the event carrying the record's sourceHash for upsertMany
MergedOver(kind, st, raw) ==
  IF kind = "updateEvent"
  THEN IF Trim(run[1].eventId) \in DOMAIN st
       THEN mapEventDoc(Trim(run[1].eventId), st[Trim(run[1].eventId)])
       ELSE <<>>
  ELSE IF kind = "upsertMany" /\ RowHash(raw) # <<>> /\ IdsWithHash(st, RowHash(raw)) # {}
  THEN LET id == CHOOSE x \in IdsWithHash(st, RowHash(raw)) : TRUE
       IN  mapEventDoc(id, st[id])
  ELSE <<>>

MergedText(raw, fb, keys, fbKeys) ==
  Trim(OrEmpty(Coalesce([i \in 1..(Len(keys) + Len(fbKeys)) |->
                           IF i <= Len(keys) THEN Opt(raw, keys[i])
                           ELSE Opt(fb, fbKeys[i - Len(keys)])])))

\* yyyy-mm-dd names a day of the calendar
RealDay(date) ==
  LET y == ParseInt(SubSeq(date, 1, 4)).v
      m == ParseInt(SubSeq(date, 6, 7)).v
      d == ParseInt(SubSeq(date, 9, 10)).v
  IN  m \in 1..12 /\ d \in 1..DaysInMonth(y, m)

InvalidMerged(raw, fb) ==
  LET date == MergedText(raw, fb, <<"dateISO", "date", "dateStr">>, <<"dateISO", "date">>)
  IN  \/ MergedText(raw, fb, <<"title">>, <<"title">>) = <<>>
      \/ MergedText(raw, fb, <<"category">>, <<"category">>) = <<>>
      \/ date = <<>>
      \/ ~IsStrictISOShape(date)
      \/ ~RealDay(date)

\* the record reached the validation of its call
Validated(kind, st) ==
  kind \in {"createEvent", "upsertMany"}
    \/ (kind = "updateEvent" /\ Trim(run[1].eventId) \in DOMAIN st)

\* C16: a createEvent or updateEvent call and a record of upsertMany whose
\* merged title or category is empty after trimming, or whose date is missing,
\* not of the form yyyy-mm-dd or not a day of the calendar, ends in an error
\* and writes nothing; the store after a failed call is the store before it.
C16_InvalidRejectedBeforeWrite ==
  /\ \A i \in 1..Len(run[1].log) :
       LET e == run[1].log[i]
       IN  (/\ Validated(run[1].kind, e.st)
            /\ InvalidMerged(e.raw, MergedOver(run[1].kind, e.st, e.raw))) =>
             e.outcome = "errors" /\ e.write = NoWrite
  /\ (CallEnded({"createEvent", "updateEvent"}) /\ run[1].ret = "errors") =>
       store = run[1].log[1].st

\* createEvent was handed a date that is no day of the calendar and threw
C16_Witness ==
  /\ CallEnded({"createEvent"})
  /\ run[1].input = InputNoSuchDay
  /\ run[1].ret = "errors"
  /\ store = CrudStore

Unrecognized(raw, key, allowed) == key \in DOMAIN raw /\ Trim(raw[key]) \notin allowed

\* C17: every stored event has a status of pending / done / cancelled and a
\* recurrence of "" / weekly / monthly; a valid record that carries another
\* status or recurrence is not rejected, and what is written for it holds
\* status pending, respectively recurrence "".
C17_EnumsCoerced ==
  /\ \A id \in DOMAIN store :
       store[id].status \in ALLOWED_STATUS /\ store[id].recurrence \in ALLOWED_RECURRENCE
  /\ \A i \in 1..Len(run[1].log) :
       LET e == run[1].log[i]
       IN  /\ e.write # NoWrite =>
                /\ e.write.after.status \in ALLOWED_STATUS
                /\ e.write.after.recurrence \in ALLOWED_RECURRENCE
           /\ (e.write # NoWrite /\ run[1].kind \in {"createEvent", "updateEvent", "upsertMany"}) =>
                /\ Unrecognized(e.raw, "status", ALLOWED_STATUS) =>
                     e.write.after.status = StrPending
                /\ Unrecognized(e.raw, "recurrence", ALLOWED_RECURRENCE) =>
                     e.write.after.recurrence = <<>>
           /\ (/\ Validated(run[1].kind, e.st)
               /\ ~InvalidMerged(e.raw, MergedOver(run[1].kind, e.st, e.raw))
               /\ faults = 0) =>
                e.outcome # "errors"

\* a record with an unknown status and recurrence was stored as pending, ""
C17_Witness ==
  \E i \in 1..Len(run[1].log) :
    /\ run[1].log[i].raw = InputOddValues
    /\ run[1].log[i].write # NoWrite
    /\ run[1].log[i].write.op = "create"
    /\ store[run[1].log[i].write.id].status = StrPending
    /\ store[run[1].log[i].write.id].recurrence = <<>>

\* C18: updateEvent and softDeleteEvent called with the id of an event that
\* does not exist or that is soft-deleted end in an error and leave the store
\* as it was.
C18_MissingOrDeletedRejected ==
  CallEnded({"updateEvent", "softDeleteEvent"}) =>
    LET e  == run[1].log[1]
        id == Trim(run[1].eventId)
    IN  (id \notin DOMAIN e.st \/ e.st[id].deletedAt # NullValue) =>
          /\ run[1].ret = "errors"
          /\ e.write = NoWrite
          /\ store = e.st

\* C19: no step removes a document; a softDeleteEvent write sets deletedAt to
\* a value other than null, a restoreEvent write sets it to null, and both
\* leave every other field but updatedAt and updatedBy as it was.
C19_NeverRemovedOnlyMarked ==
  [][/\ DOMAIN store \subseteq DOMAIN store'
     /\ (/\ run[1].kind \in {"softDeleteEvent", "restoreEvent"}
         /\ run[1].pc = "update"
         /\ run'[1].ret = "updated") =>
          \A id \in DOMAIN store :
            IF id = run[1].pend.id
            THEN /\ (run[1].kind = "softDeleteEvent") = (store'[id].deletedAt # NullValue)
                 /\ \A k \in (DOMAIN store[id]) \ {"deletedAt", "updatedAt", "updatedBy"} :
                      store'[id][k] = store[id][k]
            ELSE store'[id] = store[id]]_vars

\* the event in the bin was restored, and the live one was put into the bin
C19_Witness ==
  /\ store[DocId(2)].deletedAt = NullValue
  /\ store[DocId(1)].deletedAt # NullValue

\* C20: what getEventsInRange returns for (from, to) is exactly the events
\* with deletedAt = null whose dateStart lies between the start of the day of
\* from and the end of the day of to, in ascending order of dateStart.
C20_RangeExactAscending ==
  CallEnded({"getEventsInRange"}) /\ run[1].ret = "ok" =>
    LET e   == run[1].log[1]
        out == run[1].out
        in  == {id \in DOMAIN e.st :
                  /\ e.st[id].deletedAt = NullValue
                  /\ run[1].input.from.t <= e.st[id].dateStart.t
                  /\ e.st[id].dateStart.t <= run[1].input.to.t}
    IN  /\ {out[i].id : i \in 1..Len(out)} = in
        /\ Len(out) = Cardinality(in)
        /\ \A i \in 1..Len(out) : out[i] = mapEventDoc(out[i].id, e.st[out[i].id])
        /\ \A i, j \in 1..Len(out) : i < j => out[i].dateStart.t <= out[j].dateStart.t

\* the event of the bin was restored and the query returned it after the
\* live one
C20_Witness ==
  /\ CallEnded({"getEventsInRange"})
  /\ run[1].ret = "ok"
  /\ Len(run[1].out) = 2
  /\ run[1].out[2].id = DocId(2)

\* getEvent returned, and the call before it was a createEvent or updateEvent
\* that returned the event of the same id
ReadBack ==
  /\ CallEnded({"getEvent"})
  /\ run[1].ret = "ok"
  /\ "kind" \in DOMAIN prev
  /\ prev.kind \in {"createEvent", "updateEvent"}
  /\ prev.ret \in {"created", "updated", "skipped"}
  /\ prev.out[1].id = Trim(run[1].input)

\* C23: the event getEvent reads back for the id of an event createEvent or
\* updateEvent has just returned carries the same title, category, status,
\* notes, assignedTo, recurrence and dateISO as the returned record.
C23_ReadBackAgrees ==
  ReadBack =>
    /\ run[1].out # <<>>
    /\ \A f \in TrackedFields : run[1].out[1][f] = prev.out[1][f]

\* an event was updated from an input the data layer had to normalise, then
\* read back
C23_Witness ==
  /\ ReadBack
  /\ prev.kind = "updateEvent"
  /\ prev.ret = "updated"
  /\ run[1].out # <<>>
  /\ run[1].out[1].status # StrDone

\* an event was created and read back
C23_CreatedReadBack ==
  /\ ReadBack
  /\ prev.kind = "createEvent"
  /\ run[1].out # <<>>

\* the fields softDeleteEvent and restoreEvent write
BinFields == {"deletedAt", "updatedAt", "updatedBy"}

\* the fields of an event a stay in the bin must not touch
KeptFields ==
  {"title", "category", "status", "notes", "assignedTo", "recurrence", "dateISO",
   "dateStart", "createdBy", "source", "sourceHash"}

\* runner 1 has returned from a softDeleteEvent or restoreEvent that wrote
BinCallWrote ==
  /\ CallEnded({"softDeleteEvent", "restoreEvent"})
  /\ run[1].ret = "updated"

\* restoreEvent returned, and the call before it was the softDeleteEvent that
\* put the same event into the bin
RestoredAfterDelete ==
  /\ CallEnded({"restoreEvent"})
  /\ run[1].ret = "updated"
  /\ "kind" \in DOMAIN prev
  /\ prev.kind = "softDeleteEvent"
  /\ prev.ret = "updated"
  /\ prev.log[1].write.id = run[1].log[1].write.id

\* C30: a softDeleteEvent or restoreEvent that wrote has changed nothing but
\* deletedAt, updatedAt and updatedBy of the event it was given and nothing of
\* any other event; and an event soft-deleted and then restored is live again
\* with the title, category, status, notes, assignedTo, recurrence, dateISO,
\* dateStart, createdBy, source and sourceHash it had before the soft delete.
C30_BinTouchesThreeFields ==
  /\ BinCallWrote =>
       LET w == run[1].log[1].write
       IN  /\ DOMAIN store = DOMAIN run[1].log[1].st
           /\ \A id \in DOMAIN store :
                IF id = w.id
                THEN /\ DOMAIN store[id] = DOMAIN run[1].log[1].st[id]
                     /\ \A k \in (DOMAIN store[id]) \ BinFields :
                          store[id][k] = run[1].log[1].st[id][k]
                ELSE store[id] = run[1].log[1].st[id]
  /\ RestoredAfterDelete =>
       /\ store[run[1].log[1].write.id].deletedAt = NullValue
       /\ \A k \in KeptFields :
            store[run[1].log[1].write.id][k] = prev.log[1].st[prev.log[1].write.id][k]

\* the live imported event (status done, weekly) went to the bin and back
C30_Witness ==
  /\ RestoredAfterDelete
  /\ run[1].log[1].write.id = DocId(1)
  /\ prev.log[1].st[DocId(1)].deletedAt = NullValue
  /\ store[DocId(1)].status = StrDone
  /\ store[DocId(1)].sourceHash = <<HashH>>

(***************************************************************************)
(* Claims about the lookups and the counters of upsertMany (SpecDb)        *)
(***************************************************************************)
\* the fingerprints the bulk lookup of a call still has to ask for are the
\* distinct non-empty fingerprints of its batch, each once
BulkCoversBatch(L) ==
  /\ \A i, j \in 1..Len(L.pend.uniq) : i # j => L.pend.uniq[i] # L.pend.uniq[j]
  /\ {L.pend.uniq[i] : i \in 1..Len(L.pend.uniq)} =
       {RowHash(L.items[k]) : k \in 1..Len(L.items)} \ {<<>>}

\* C24: as long as no request fails, upsertMany resolves the fingerprints of
\* its batch through the chunked bulk lookup only: the chunks cover each
\* distinct non-empty fingerprint once, and the call never awaits a lookup
\* query of its own for a single record.
C24_BulkLookupOnly ==
  \A r \in Runners :
    (run[r].kind = "upsertMany" /\ faults = 0) =>
      /\ run[r].pc = "bulk" => BulkCoversBatch(run[r])
      /\ run[r].pc # "find"

\* the records of the returned batch that made updateDoc write
UpdateWrites == {i \in 1..Len(run[1].log) : run[1].log[i].write.op = "update"}

\* C25: the updated counter a returned upsertMany reports is the number of
\* update writes the batch issued, and every fingerprinted record that matched
\* an existing event and caused no write is counted in skipped.
C25_UpdatedCountsWrites ==
  Returned =>
    /\ run[1].results.updated = Cardinality(UpdateWrites)
    /\ \A i \in 1..Len(run[1].log) :
         LET e == run[1].log[i]
         IN  (/\ RowHash(e.raw) # <<>>
              /\ Observed(e.st, e.raw).matches # {}
              /\ e.outcome # "errors"
              /\ ~Wrote(e)) => e.outcome = "skipped"

(***************************************************************************)
(* Claim about the fingerprints of the persisted events (SpecCrud)         *)
(***************************************************************************)
\* a record of the batch whose fingerprint was carried by events of the bin
\* only when the record was processed
MatchedBinOnly(e) ==
  /\ RowHash(e.raw) # <<>>
  /\ IdsWithHash(e.st, RowHash(e.raw)) # {}
  /\ \A id \in IdsWithHash(e.st, RowHash(e.raw)) : e.st[id].deletedAt # NullValue

\* C26: with one client and no interleaving, whatever creates from the form,
\* updates, soft deletes, restores and imports have run, no two persisted
\* events, live or in the bin, carry the same non-null sourceHash; and a
\* record of an import whose fingerprint is carried by an event of the bin
\* only creates no event and leaves that event in the bin.
C26_OneEventPerFingerprint ==
  /\ \A a, b \in DOMAIN store :
       (store[a].sourceHash # NullValue /\ a # b) =>
         store[a].sourceHash # store[b].sourceHash
  /\ run[1].kind = "upsertMany" =>
       \A i \in 1..Len(run[1].log) :
         MatchedBinOnly(run[1].log[i]) =>
           /\ run[1].log[i].outcome # "created"
           /\ Wrote(run[1].log[i]) =>
                /\ run[1].log[i].write.op = "update"
                /\ run[1].log[i].write.after.deletedAt # NullValue

\* the imported event was put in the bin, then an import of its fingerprint
\* updated it there
C26_Witness ==
  /\ Returned
  /\ Cardinality(DOMAIN store) = 2
  /\ \E i \in 1..Len(run[1].log) :
       /\ MatchedBinOnly(run[1].log[i])
       /\ run[1].log[i].outcome = "updated"
       /\ Wrote(run[1].log[i])

\* one batch brought the same new fingerprint twice: one event was created
C26_TwiceInBatch ==
  /\ Returned
  /\ run[1].results.created = 1
  /\ run[1].results.skipped = 1
  /\ \E id \in DOMAIN store : store[id].sourceHash = <<HashG>>

(***************************************************************************)
(* The month shown follows the collection (SpecLive)                       *)
(***************************************************************************)
Date0210 == <<"2", "0", "2", "6", "-", "0", "2", "-", "1", "0">>

\* what the form hands to handleCreate and handleUpdate
LivePayloads ==
  {[title |-> <<"a">>, category |-> <<"c">>, dateISO |-> Date0105, status |-> StrPending,
    notes |-> <<>>, assignedTo |-> <<>>, recurrence |-> StrWeekly],
   [title |-> <<"a">>, category |-> <<"c">>, dateISO |-> Date0210, status |-> StrPending,
    notes |-> <<>>, assignedTo |-> <<>>, recurrence |-> <<>>]}

\* handleUpdate: requireEmail, then updateEvent(id, payload, USER_EMAIL)
handleUpdate(id, payload) ==
  /\ session.uiInitialized
  /\ id \in DOMAIN store
  /\ IF ~requireEmail(session)
     THEN UNCHANGED <<store, unsubMonth>>
     ELSE /\ store' = updateEventNow(store, id, payload, session.USER_EMAIL)
          /\ unsubMonth' = AfterWrite(updateEventNow(store, id, payload, session.USER_EMAIL))
  /\ UNCHANGED <<now, session, UI_STATE, attached, run, faults, prev, calls, expandVars,
               fingerprintVars, modalVars, rangeVars>>

LiveMonths == {<<2025, 11>>, <<2026, 0>>, <<2026, 1>>}

\* an authorized user is on month M and the listener of M is attached
SubscribedTo(M) ==
  /\ session.USER_EMAIL # <<>>
  /\ unsubMonth # <<>>
  /\ unsubMonth[1].from = startOfMonth(M[1], M[2])
  /\ UI_STATE.year = M[1]
  /\ UI_STATE.monthIndex = M[2]

\* the live events whose day lies in month M, by day
LiveEventsOf(M) ==
  OrderByDateStart(store, {id \in DOMAIN store :
                             /\ store[id].deletedAt = NullValue
                             /\ getFullYear(store[id].dateStart) = M[1]
                             /\ getMonth(store[id].dateStart) = M[2]})

\* the UI shows the collection as it is
Shows(M) ==
  /\ UI_STATE.rawEvents = LiveEventsOf(M)
  /\ UI_STATE.events = expandRecurringForVisibleRange(LiveEventsOf(M), M[1], M[2])

\* C29: when an authorized user is on month M with its listener attached and
\* the display differs from the collection (after the navigation, or after a
\* create, update or soft delete), then, the store delivering its snapshots,
\* eventually the raw events are the live events of M and the displayed
\* events their expansion, unless a navigation or an auth change ends the
\* subscription to M first.
C29_MonthEventuallyShown ==
  \A M \in LiveMonths :
    (SubscribedTo(M) /\ ~Shows(M)) ~> (~SubscribedTo(M) \/ Shows(M))

\* after a navigation to February an event was created there, moved and is
\* shown
C29_Witness ==
  /\ SubscribedTo(<<2026, 1>>)
  /\ Shows(<<2026, 1>>)
  /\ unsubMonth[1].delivered
  /\ Len(UI_STATE.rawEvents) = 1
  /\ Cardinality(DOMAIN store) = 2

(***************************************************************************)
(* Specifications                                                          *)
(***************************************************************************)
DbIdle ==
  /\ store = <<>>
  /\ run = [r \in Runners |-> IdleRun]
  /\ faults = 0
  /\ prev = NoPrev
  /\ calls = 0

InitExpand == ExpandInit /\ FingerprintIdle /\ DbIdle /\ AppIdle /\ ModalIdle /\ RangeIdle

ExpandNext == CallExpandWeekly \/ CallExpandMonthly

SpecExpand == InitExpand /\ [][ExpandNext]_vars

InitFingerprint == FingerprintInit /\ ExpandIdle /\ DbIdle /\ AppIdle /\ ModalIdle /\ RangeIdle

FingerprintNext == CallEventFingerprint

SpecFingerprint == InitFingerprint /\ [][FingerprintNext]_vars

InitDb == ExpandIdle /\ FingerprintIdle /\ DbIdle /\ AppIdle /\ ModalIdle /\ RangeIdle

\* one client: a call starts when the previous one has returned
DbNext ==
  \/ \E batch \in Batches : StartUpsertMany(1, batch)
  \/ \E n \in 1..MaxDocs, input \in UpdateInputs : StartUpdateEvent(1, DocId(n), input)
  \/ ResolveBulk(1)
  \/ ResolveFind(1)
  \/ CommitAdd(1)
  \/ ResolveGet(1)
  \/ CommitUpdate(1)
  \/ FailPending(1)

SpecDb == InitDb /\ [][DbNext]_vars

InitConc == ExpandIdle /\ FingerprintIdle /\ DbIdle /\ AppIdle /\ ModalIdle /\ RangeIdle

\* two clients: the calls of both interleave at their awaits
ConcNext ==
  \/ \E r \in Runners, batch \in ConcBatches : StartUpsertMany(r, batch)
  \/ \E r \in Runners : ResolveBulk(r)
  \/ \E r \in Runners : ResolveFind(r)
  \/ \E r \in Runners : CommitAdd(r)
  \/ \E r \in Runners : ResolveGet(r)
  \/ \E r \in Runners : CommitUpdate(r)
  \/ \E r \in Runners : FailPending(r)

SpecConc == InitConc /\ [][ConcNext]_vars

InitApp == ExpandIdle /\ FingerprintIdle /\ DbIdle /\ AppInit /\ ModalIdle /\ RangeIdle

AppNext ==
  \/ \E user \in Users, allowed \in BOOLEAN : AuthChanged(user, allowed)
  \/ DeliverSnapshot
  \/ \E delta \in {-1, 1} : shiftMonth(delta)
  \/ goToday
  \/ \E payload \in ModalPayloads : handleCreate(payload)
  \/ \E id \in DOMAIN store, ok \in BOOLEAN : handleDelete(id, ok)

SpecApp == InitApp /\ [][AppNext]_vars

InitView ==
  /\ ExpandIdle /\ FingerprintIdle /\ CrudInit /\ ModalIdle /\ RangeIdle
  /\ AppInitAt(NewDate(2026, 0, 15))

\* the UI over a collection that holds a weekly event
ViewNext ==
  \/ \E user \in Users, allowed \in BOOLEAN : AuthChanged(user, allowed)
  \/ DeliverSnapshot
  \/ \E delta \in {-1, 1} : shiftMonth(delta)
  \/ goToday
  \/ \E text \in {<<>>, <<"a", " ">>} : TypeSearch(text)
  \/ \E field \in {"filterCategory", "filterStatus", "filterAssignedTo"},
        value \in {<<>>, <<"c">>} : ChangeFilter(field, value)
  \/ \E view \in {"month", "list"} : ClickView(view)
  \/ \E id \in DOMAIN store, ok \in BOOLEAN : handleDelete(id, ok)

SpecView == InitView /\ [][ViewNext]_vars

InitLive ==
  /\ ExpandIdle /\ FingerprintIdle /\ DbIdle /\ ModalIdle /\ RangeIdle
  /\ AppInitAt(NewDate(2026, 0, 15))

LiveNext ==
  \/ \E user \in Users, allowed \in BOOLEAN : AuthChanged(user, allowed)
  \/ DeliverSnapshot
  \/ \E delta \in {-1, 1} : shiftMonth(delta)
  \/ goToday
  \/ \E payload \in LivePayloads : handleCreate(payload)
  \/ \E id \in DOMAIN store, payload \in LivePayloads : handleUpdate(id, payload)
  \/ \E id \in DOMAIN store : handleDelete(id, TRUE)

\* what a step of DeliverSnapshot is to the listener unsubMonth stands for:
\* the snapshot it was due has been handed to its callback
SnapshotHanded ==
  /\ unsubMonth # <<>>
  /\ ~unsubMonth[1].delivered
  /\ unsubMonth' = <<[unsubMonth[1] EXCEPT !.delivered = TRUE]>>

\* the store calls the listener it holds whenever the listener is due a
\* snapshot: a snapshot that stays due is delivered
SpecLive == InitLive /\ [][LiveNext]_vars /\ WF_unsubMonth(SnapshotHanded)

\* what the user types into the form
TypedValues == {<<"title", <<"b">> >>, <<"recurrence", StrWeekly>>}

InitModal ==
  /\ ExpandIdle /\ FingerprintIdle /\ DbIdle /\ ModalIdle /\ RangeIdle
  /\ AppInitAt(NewDate(2026, 0, 5))

ModalNext ==
  \/ \E user \in Users, allowed \in BOOLEAN : AuthChanged(user, allowed)
  \/ DeliverSnapshot
  \/ \E i \in 1..(GridCells + MaxEvents) : ClickCalendarChip(i)
  \/ \E i \in 1..(GridCells + MaxEvents) : ClickListRow(i)
  \/ \E i \in 1..(GridCells + MaxEvents) : ClickOverviewRow(i)
  \/ ClickDayCell(Date0105)
  \/ ClickNewEvent
  \/ \E tv \in TypedValues : TypeInForm(tv[1], tv[2])
  \/ ClickCancelModal
  \/ SubmitForm
  \/ ClickDuplicate
  \/ \E ok \in BOOLEAN : ClickDeleteEvent(ok)

SpecModal == InitModal /\ [][ModalNext]_vars

InitRange == ExpandIdle /\ FingerprintIdle /\ DbIdle /\ AppIdle /\ ModalIdle /\ RangeInit

RangeNext == CallExpandRange

SpecRange == InitRange /\ [][RangeNext]_vars

InitCrud == ExpandIdle /\ FingerprintIdle /\ CrudInit /\ AppIdle /\ ModalIdle /\ RangeIdle

CrudNext ==
  \/ \E input \in CrudInputs : StartCreateEvent(1, input)
  \/ \E id \in CrudIds, input \in CrudInputs : StartUpdateEvent(1, id, input)
  \/ \E id \in CrudIds : StartSoftDeleteEvent(1, id)
  \/ \E id \in CrudIds : StartRestoreEvent(1, id)
  \/ \E range \in CrudRanges : StartGetEventsInRange(1, range.from, range.to)
  \/ \E id \in CrudIds \cup {DocId(3)} : StartGetEvent(1, id)
  \/ \E batch \in CrudBatches : StartUpsertMany(1, batch)
  \/ ResolveBulk(1)
  \/ ResolveFind(1)
  \/ CommitAdd(1)
  \/ ResolveGet(1)
  \/ CommitUpdate(1)
  \/ NotFoundUpdate(1)
  \/ ResolveQuery(1)
  \/ ResolveGetEvent(1)
  \/ FailPending(1)

SpecCrud == InitCrud /\ [][CrudNext]_vars

====
